---------------------------- MODULE Spec2Model ----------------------------
(***************************************************************************)
(* A model of the archeum-dev/io landing page core: the Poisson-disc node  *)
(* sampler (LayerNodes.particles, generateNodePositions), the edge         *)
(* builders, the Experience frame update and the MainApp scroll state.     *)
(*                                                                         *)
(* JavaScript numbers are modelled in fixed point.  Lengths are integers   *)
(* in units of 1/Unit, angles and sines in units of 1/TrigUnit, and a      *)
(* value of the seeded generator is kept as its exact numerator over       *)
(* RngModulus.  Every product stays below 2^31.                            *)
(***************************************************************************)
EXTENDS Integers, Sequences, FiniteSets, TLC

VARIABLES
    \* ---- node generation (LayerNodes.particles / generateNodePositions)
    count,        \* prop count
    radius,       \* prop radius, in 1/Unit
    seed,         \* prop seed
    impl,         \* the generator that is running: "LayerNodes" or "InterLayerLines"
    pc,           \* "idle" (no run in progress) or "loop" (inside the while loop)
    minDist,      \* const minDist of the running generator, in 1/Unit
    state,        \* the closure variable `state` of seededRandom
    draws,        \* history: number of rng() calls of the current run
    temp,         \* the accepted points
    activeList,   \* the active list
    lastStep,     \* history: what the last loop iteration did
    results,      \* the values returned by the completed runs
    \* ---- line building (LayerNodes internalLines / externalLines)
    particles,       \* the layer's nodes
    connectTo,       \* prop connectTo: the nodes of the target layer
    connectInternal, \* prop connectInternal
    linesPc,         \* "pending" before the memo is computed, then "done"
    internalLines,   \* the memo's internal edges, as pairs of node indices
    externalLines,   \* the memo's external edges <<source index, target index>>
    \* ---- Experience (the scene's frame update)
    scrollProgress,  \* prop scrollProgress (MainApp state), in 1/ProgUnit
    isMobile,        \* prop isMobile (MainApp state)
    currentCameraPos,            \* ref, [x, y, z] in 1/Unit
    currentLookAt,               \* ref, [x, y, z] in 1/Unit
    layer1Opacity,               \* refs, in 1/Frac
    layer2Opacity,
    layer3Opacity,
    foundationToNetworkGrowth,
    networkToEcosystemGrowth,
    ecosystemUpwardGrowth,
    foundationToNetworkOpacity,
    networkToEcosystemOpacity,
    ecosystemUpwardOpacity,
    rotationY,       \* groupRef.current.rotation.y, in 1/Frac radians
    targetPos,       \* history: the last frame's local targetPos
    targetLookAt,    \* history: the last frame's local targetLookAt
    frames,          \* history: number of frames run
    obs,             \* history: what the last two frames read and wrote
    \* ---- MainApp (the scroll state)
    targetProgress,        \* state, in 1/ProgUnit
    animationPhase,        \* state: "intro", "foundation", "network", "ecosystem"
    blackoutProgress,      \* state, in 1/ProgUnit
    finalOverlayProgress,  \* state, in 1/ProgUnit
    isDragging,            \* state
    isOnFinalPage,         \* state
    blackoutTargetRef,     \* ref, in 1/ProgUnit
    finalOverlayTargetRef, \* ref, in 1/ProgUnit
    activeCardIndex,       \* ContentPane state
    touchStart,            \* ContentPane state: <<>> (null) or <<clientY>>
    touchCurrent,          \* ContentPane state: <<>> (null) or <<clientY>>
    finalOverlayTouchStart, \* state: <<>> (null) or <<clientY>>
    finalOverlayTouchEnd,   \* state: <<>> (null) or <<clientY>>
    overlayTouch,          \* history: a touch on the final overlay is in progress
    request,               \* history: <<>> or the last position passed to handleScrollProgress
    events,                \* history: number of input events handled
    \* ---- InterLayerLines.nodePairs
    startNodes,      \* generateNodePositions(actualStartCount, startRadius, startSeed)
    endNodes,        \* generateNodePositions(actualEndCount, endRadius, endSeed)
    numLines,        \* prop count
    startY,          \* prop startY, in 1/Unit
    endY,            \* prop endY, in 1/Unit
    pairsPc,         \* "pending" before the memo is computed, then "done"
    startIndices,    \* history: the shuffled startIndices
    endIndices,      \* history: the shuffled endIndices
    nodePairs        \* the memo's pairs

genVars == <<count, radius, seed, impl, pc, minDist, state, draws, temp, activeList,
             lastStep, results>>

lineVars == <<particles, connectTo, connectInternal, linesPc, internalLines,
              externalLines>>

propVars == <<scrollProgress, isMobile>>

refVars == <<currentCameraPos, currentLookAt, layer1Opacity, layer2Opacity,
             layer3Opacity, foundationToNetworkGrowth, networkToEcosystemGrowth,
             ecosystemUpwardGrowth, foundationToNetworkOpacity,
             networkToEcosystemOpacity, ecosystemUpwardOpacity, rotationY>>

frameVars == <<refVars, targetPos, targetLookAt, frames, obs>>

touchVars == <<touchStart, touchCurrent>>

overlayTouchVars == <<finalOverlayTouchStart, finalOverlayTouchEnd, overlayTouch>>

appVars == <<targetProgress, animationPhase, blackoutProgress, finalOverlayProgress,
             isDragging, isOnFinalPage, blackoutTargetRef, finalOverlayTargetRef,
             activeCardIndex, touchVars, overlayTouchVars, request, events>>

pairVars == <<startNodes, endNodes, numLines, startY, endY, pairsPc, startIndices,
              endIndices, nodePairs>>

vars == <<genVars, lineVars, propVars, frameVars, appVars, pairVars>>

-----------------------------------------------------------------------------
(* Fixed point *)

Unit == 10^3
TrigUnit == 10^4
\* Fractions (interpolation parameters, opacities, growth) are in 1/Frac,
\* scroll progress in 1/ProgUnit.
Frac == TrigUnit
ProgUnit == 10^6

Abs(a) == IF a < 0 THEN -a ELSE a
Min(a, b) == IF a < b THEN a ELSE b
Max(a, b) == IF a > b THEN a ELSE b

\* floor(sqrt(n)) by bisection; lo*lo <= n < hi*hi throughout.
RECURSIVE SqrtBetween(_, _, _)
SqrtBetween(n, lo, hi) ==
    IF hi - lo <= 1 THEN lo
    ELSE LET mid == (lo + hi) \div 2
         IN  IF mid * mid <= n THEN SqrtBetween(n, mid, hi)
                               ELSE SqrtBetween(n, lo, mid)

\* Math.sqrt of a value given in 1/Unit^2, result in 1/Unit.
Sqrt(n) == SqrtBetween(n, 0, 46341)

\* Math.PI in 1/TrigUnit, kept a multiple of 4 so that the quadrants are exact.
HalfPi == 15708
Pi == 2 * HalfPi
TwoPi == 4 * HalfPi

\* sin on [0, pi/2], argument and result in 1/TrigUnit (Taylor series to x^9).
SinQ(x) ==
    LET x2 == (x * x) \div TrigUnit
        t4 == TrigUnit - x2 \div 72
        t3 == TrigUnit - ((x2 * t4) \div TrigUnit) \div 42
        t2 == TrigUnit - ((x2 * t3) \div TrigUnit) \div 20
        t1 == TrigUnit - ((x2 * t2) \div TrigUnit) \div 6
    IN  Min(TrigUnit, (x * t1) \div TrigUnit)

\* Math.sin and Math.cos of an angle in 1/TrigUnit radians.
Sin(a) ==
    LET b == a % TwoPi
        q == b \div HalfPi
        r == b % HalfPi
    IN  CASE q = 0 -> SinQ(r)
          [] q = 1 -> SinQ(HalfPi - r)
          [] q = 2 -> -SinQ(r)
          [] OTHER -> -SinQ(HalfPi - r)

Cos(a) == Sin(a + HalfPi)

-----------------------------------------------------------------------------
(* seededRandom: state = (state * 9301 + 49297) % 233280; return state / 233280 *)

RngMultiplier == 9301
RngIncrement == 49297
RngModulus == 233280

\* A generator whose state is shared by all closures instead of being
\* initialised from the seed (a variant used to test C1).
seededRandom_shared(s) == state

\* The closure's initial state.
seededRandom(s) == s

\* One call of the returned function: the new state, which is also the
\* numerator of the value returned (over RngModulus).  The product is taken
\* in two halves to stay below 2^31.
rng(st) ==
    ((((st * (RngMultiplier \div 2)) % RngModulus) * 2
        + st * (RngMultiplier % 2) + RngIncrement) % RngModulus)

\* Math.floor(rng() * len)
RandIndex(r, len) == (r * len) \div RngModulus
\* rng() * Math.PI * 2, in 1/TrigUnit radians
RandAngle(r) == (r * (TwoPi \div 8)) \div (RngModulus \div 8)
\* minDist * (1 + rng())
RandDist(r, md) == (md * (Unit + (r * Unit) \div RngModulus)) \div Unit
\* (rng() - 0.5) * 0.1
RandY(r) == ((r - RngModulus \div 2) * (Unit \div 10)) \div RngModulus

-----------------------------------------------------------------------------
(* Bounds of the node-generation model *)

MaxCount == 16
MaxRuns == 2
Radii == {(7 * Unit) \div 2, 6 * Unit}
Seeds == {0, 1000, 8000, 16000}

-----------------------------------------------------------------------------
(* LayerNodes.particles *)

numSeeds == 5
maxAttempts == 30

\* radius / Math.sqrt(count) * 1.8
MinDist(c, rad) == (((rad * Unit) \div Sqrt(c * Unit * Unit)) * 18) \div 10

\* Math.sqrt(v) < m and Math.sqrt(v) > m for m >= 0, decided on the squares
\* (v is in 1/Unit^2, m in 1/Unit).
SqrtLess(v, m) == v < m * m
SqrtGreater(v, m) == v > m * m

\* dx * dx + dz * dz
Dist2(x1, z1, x2, z2) == (x1 - x2) * (x1 - x2) + (z1 - z2) * (z1 - z2)

isValid(x, z, points) ==
    LET distFromCenter2 == x * x + z * z
    IN  /\ ~(\/ SqrtGreater(distFromCenter2, radius)
              \/ SqrtLess(distFromCenter2, (radius * 15) \div 100))
        /\ \A i \in 1..Len(points) :
              ~SqrtLess(Dist2(x, z, points[i].x, points[i].z), minDist)

\* A generator closure with its call count: g.state is the closure variable,
\* g.draws the number of calls made so far.
Call(g) == [state |-> rng(g.state), draws |-> g.draws + 1]

\* The for loop over the seed points: i-th seed on the circle of 40% radius.
RECURSIVE SeedPoints(_, _, _)
SeedPoints(i, g, acc) ==
    IF i >= numSeeds THEN [points |-> acc, g |-> g]
    ELSE LET angle == (i * TwoPi) \div numSeeds
             r == (radius * 4) \div 10
             g1 == Call(g)
             seedPoint == [x |-> (r * Cos(angle)) \div TrigUnit,
                           y |-> RandY(g1.state),
                           z |-> (r * Sin(angle)) \div TrigUnit]
         IN  SeedPoints(i + 1, g1, Append(acc, seedPoint))

\* The for loop over the attempts around `point`, started at attempt i with
\* generator g: the first valid candidate, or found = FALSE.
RECURSIVE TryCandidates(_, _, _)
TryCandidates(point, i, g) ==
    IF i >= maxAttempts
    THEN [found |-> FALSE, attempts |-> i, g |-> g]
    ELSE LET g1 == Call(g)
             angle == RandAngle(g1.state)
             g2 == Call(g1)
             dist == RandDist(g2.state, minDist)
             newX == point.x + (Cos(angle) * dist) \div TrigUnit
             newZ == point.z + (Sin(angle) * dist) \div TrigUnit
         IN  IF isValid(newX, newZ, temp)
             THEN LET g3 == Call(g2)
                  IN  [found |-> TRUE, attempts |-> i + 1, g |-> g3,
                       newPoint |-> [x |-> newX, y |-> RandY(g3.state), z |-> newZ]]
             ELSE TryCandidates(point, i + 1, g2)

\* A splice that removes nothing (a variant used to test C4).
Splice_none(list, randIndex) == list

\* activeList.splice(randIndex, 1), randIndex counted from 0
Splice(list, randIndex) ==
    [k \in 1..(Len(list) - 1) |-> IF k <= randIndex THEN list[k] ELSE list[k + 1]]

\* useMemo runs the generator: lines 35-68, up to the while loop.
particles_Seeds ==
    /\ pc = "idle"
    /\ Len(results) < MaxRuns
    /\ LET sp == SeedPoints(0, [state |-> seededRandom(seed), draws |-> 0], <<>>)
       IN  /\ temp' = sp.points
           /\ activeList' = sp.points
           /\ state' = sp.g.state
           /\ draws' = sp.g.draws
    /\ minDist' = MinDist(count, radius)
    /\ impl' = "LayerNodes"
    /\ pc' = "loop"
    /\ lastStep' = [kind |-> "seeds", attempts |-> 0, draws |-> 0]
    /\ UNCHANGED <<count, radius, seed, results>>
    /\ UNCHANGED <<lineVars, propVars, frameVars, appVars, pairVars>>

\* One iteration of the while loop.
particles_Iterate ==
    /\ pc = "loop"
    /\ impl = "LayerNodes"
    /\ Len(activeList) > 0 /\ Len(temp) < count
    /\ LET g0 == Call([state |-> state, draws |-> draws])
           randIndex == RandIndex(g0.state, Len(activeList))
           point == activeList[randIndex + 1]
       IN  \E t \in {TryCandidates(point, 0, g0)} :
           /\ state' = t.g.state
           /\ draws' = t.g.draws
           /\ IF t.found
              THEN /\ temp' = Append(temp, t.newPoint)
                   /\ activeList' = Append(activeList, t.newPoint)
                   /\ lastStep' = [kind |-> "accept", attempts |-> t.attempts,
                                   draws |-> t.g.draws - draws]
              ELSE /\ temp' = temp
                   /\ activeList' = Splice(activeList, randIndex)
                   /\ lastStep' = [kind |-> "remove", attempts |-> t.attempts,
                                   draws |-> t.g.draws - draws]
    /\ UNCHANGED <<count, radius, seed, impl, pc, minDist, results>>
    /\ UNCHANGED <<lineVars, propVars, frameVars, appVars, pairVars>>

\* The while condition is false: return temp.
particles_Return ==
    /\ pc = "loop"
    /\ impl = "LayerNodes"
    /\ ~(Len(activeList) > 0 /\ Len(temp) < count)
    /\ results' = Append(results, [impl |-> impl, nodes |-> temp, draws |-> draws])
    /\ pc' = "idle"
    /\ lastStep' = [kind |-> "return", attempts |-> 0, draws |-> 0]
    /\ UNCHANGED <<count, radius, seed, impl, minDist, state, draws, temp, activeList>>
    /\ UNCHANGED <<lineVars, propVars, frameVars, appVars, pairVars>>

-----------------------------------------------------------------------------
(* InterLayerLines.generateNodePositions: its own copy of the sampler.  The  *)
(* accepted points are {x, y, z} objects, the active list holds {x, z}.     *)

gnp_isValid(x, z, points) ==
    LET distFromCenter2 == x * x + z * z
    IN  /\ ~(\/ SqrtGreater(distFromCenter2, radius)
              \/ SqrtLess(distFromCenter2, (radius * 15) \div 100))
        /\ \A i \in 1..Len(points) :
              ~SqrtLess(Dist2(x, z, points[i].x, points[i].z), minDist)

RECURSIVE gnp_SeedPoints(_, _, _)
gnp_SeedPoints(i, g, acc) ==
    IF i >= numSeeds THEN [points |-> acc, g |-> g]
    ELSE LET angle == (i * TwoPi) \div numSeeds
             r == (radius * 4) \div 10
             g1 == Call(g)
         IN  gnp_SeedPoints(i + 1, g1,
                 Append(acc, [x |-> (r * Cos(angle)) \div TrigUnit,
                              y |-> RandY(g1.state),
                              z |-> (r * Sin(angle)) \div TrigUnit]))

\* The sampler without the y jitter draw on acceptance (a variant used to
\* test C2).
RECURSIVE gnp_TryCandidates_noY(_, _, _)
gnp_TryCandidates_noY(point, i, g) ==
    IF i >= 30
    THEN [found |-> FALSE, attempts |-> i, g |-> g]
    ELSE LET g1 == Call(g)
             angle == RandAngle(g1.state)
             g2 == Call(g1)
             dist == RandDist(g2.state, minDist)
             newX == point.x + (Cos(angle) * dist) \div TrigUnit
             newZ == point.z + (Sin(angle) * dist) \div TrigUnit
         IN  IF gnp_isValid(newX, newZ, temp)
             THEN [found |-> TRUE, attempts |-> i + 1, g |-> g2,
                   pushed |-> [x |-> newX, y |-> 0, z |-> newZ],
                   active |-> [x |-> newX, z |-> newZ]]
             ELSE gnp_TryCandidates_noY(point, i + 1, g2)

RECURSIVE gnp_TryCandidates(_, _, _)
gnp_TryCandidates(point, i, g) ==
    IF i >= 30
    THEN [found |-> FALSE, attempts |-> i, g |-> g]
    ELSE LET g1 == Call(g)
             angle == RandAngle(g1.state)
             g2 == Call(g1)
             dist == RandDist(g2.state, minDist)
             newX == point.x + (Cos(angle) * dist) \div TrigUnit
             newZ == point.z + (Sin(angle) * dist) \div TrigUnit
         IN  IF gnp_isValid(newX, newZ, temp)
             THEN LET g3 == Call(g2)
                  IN  [found |-> TRUE, attempts |-> i + 1, g |-> g3,
                       pushed |-> [x |-> newX, y |-> RandY(g3.state), z |-> newZ],
                       active |-> [x |-> newX, z |-> newZ]]
             ELSE gnp_TryCandidates(point, i + 1, g2)

\* generateNodePositions(count, radius, seed), lines 8-35.
generateNodePositions_Seeds ==
    /\ pc = "idle"
    /\ Len(results) < MaxRuns
    /\ LET sp == gnp_SeedPoints(0, [state |-> seededRandom(seed), draws |-> 0], <<>>)
       IN  /\ temp' = sp.points
           /\ activeList' = sp.points
           /\ state' = sp.g.state
           /\ draws' = sp.g.draws
    /\ minDist' = MinDist(count, radius)
    /\ impl' = "InterLayerLines"
    /\ pc' = "loop"
    /\ lastStep' = [kind |-> "seeds", attempts |-> 0, draws |-> 0]
    /\ UNCHANGED <<count, radius, seed, results>>
    /\ UNCHANGED <<lineVars, propVars, frameVars, appVars, pairVars>>

\* One iteration of its while loop.
generateNodePositions_Iterate ==
    /\ pc = "loop"
    /\ impl = "InterLayerLines"
    /\ Len(activeList) > 0 /\ Len(temp) < count
    /\ LET g0 == Call([state |-> state, draws |-> draws])
           randIndex == RandIndex(g0.state, Len(activeList))
           point == activeList[randIndex + 1]
       IN  \E t \in {gnp_TryCandidates(point, 0, g0)} :
           /\ state' = t.g.state
           /\ draws' = t.g.draws
           /\ IF t.found
              THEN /\ temp' = Append(temp, t.pushed)
                   /\ activeList' = Append(activeList, t.active)
                   /\ lastStep' = [kind |-> "accept", attempts |-> t.attempts,
                                   draws |-> t.g.draws - draws]
              ELSE /\ temp' = temp
                   /\ activeList' = Splice(activeList, randIndex)
                   /\ lastStep' = [kind |-> "remove", attempts |-> t.attempts,
                                   draws |-> t.g.draws - draws]
    /\ UNCHANGED <<count, radius, seed, impl, pc, minDist, results>>
    /\ UNCHANGED <<lineVars, propVars, frameVars, appVars, pairVars>>

generateNodePositions_Return ==
    /\ pc = "loop"
    /\ impl = "InterLayerLines"
    /\ ~(Len(activeList) > 0 /\ Len(temp) < count)
    /\ results' = Append(results, [impl |-> impl, nodes |-> temp, draws |-> draws])
    /\ pc' = "idle"
    /\ lastStep' = [kind |-> "return", attempts |-> 0, draws |-> 0]
    /\ UNCHANGED <<count, radius, seed, impl, minDist, state, draws, temp, activeList>>
    /\ UNCHANGED <<lineVars, propVars, frameVars, appVars, pairVars>>

-----------------------------------------------------------------------------
(* Experience: the useFrame callback.  Scroll progress is an integer in     *)
(* units of 1/ProgUnit; opacities, growth fractions and interpolation       *)
(* factors are in 1/Frac; positions in 1/Unit; delta in 1/Frac seconds.     *)

\* The literal 0.nn of the source as a progress value.
Hundredths(n) == n * (ProgUnit \div 100)

\* a / b for a progress difference a and a literal width b, in 1/Frac.
Ratio(a, b) == (a * (Frac \div 100)) \div (b \div 100)

\* THREE.MathUtils.lerp(x, y, t) = (1 - t) * x + t * y, t in 1/Frac.
lerp(x, y, t) == ((Frac - t) * x + t * y) \div Frac

\* Math.atan2(y, x) for x, y > 0, in 1/TrigUnit: the angle a of the first
\* quadrant with sin(a) * x = cos(a) * y, found by bisection.
RECURSIVE AtanBetween(_, _, _, _)
AtanBetween(y, x, lo, hi) ==
    IF hi - lo <= 1 THEN lo
    ELSE LET mid == (lo + hi) \div 2
         IN  IF Sin(mid) * x <= Cos(mid) * y
             THEN AtanBetween(y, x, mid, hi)
             ELSE AtanBetween(y, x, lo, mid)

Atan2(y, x) == AtanBetween(y, x, 0, HalfPi)

\* const lookAtOffset = isMobile ? -4 : 0
lookAtOffset(mobile) == IF mobile THEN -4 * Unit ELSE 0

foundationCam(mobile) ==
    [z |-> 12 * Unit, y |-> (13 * Unit) \div 2,
     lookAt |-> (6 * Unit) \div 5 + lookAtOffset(mobile)]

networkCam(mobile) ==
    [z |-> 12 * Unit, y |-> (29 * Unit) \div 2,
     lookAt |-> (19 * Unit) \div 2 + lookAtOffset(mobile)]

ecosystemCam(mobile) ==
    [z |-> 12 * Unit, y |-> (41 * Unit) \div 2,
     lookAt |-> (35 * Unit) \div 2 + lookAtOffset(mobile)]

\* const t = Math.min(offset / 0.18, 1)
IntroT_slow(offset) == Min(Ratio(offset, Hundredths(20)), Frac)

IntroT(offset) == Min(Ratio(offset, Hundredths(18)), Frac)

\* arcT = (t - 0.5) / 0.5 and easedT = arcT * arcT * (3 - 2 * arcT)
ArcT(t) == 2 * (t - Frac \div 2)

easedT(arcT) == (((arcT * arcT) \div Frac) * (3 * Frac - 2 * arcT)) \div Frac

\* yPos and lookAtY of the phase of offset, as [y, lookAt].
CameraHeight(offset, mobile) ==
    LET f == foundationCam(mobile)
        n == networkCam(mobile)
        e == ecosystemCam(mobile)
        mid == 8 * Unit + lookAtOffset(mobile)
    IN  IF offset < Hundredths(18) THEN
            LET t == IntroT(offset) IN
            IF t < Frac \div 2
            THEN LET dropT == 2 * t
                 IN  [y |-> lerp(50 * Unit, 20 * Unit, dropT),
                      lookAt |-> lerp(0, mid, dropT)]
            ELSE LET eT == easedT(ArcT(t))
                 IN  [y |-> lerp(20 * Unit, f.y, eT),
                      lookAt |-> lerp(mid, f.lookAt, eT)]
        ELSE IF offset < Hundredths(35) THEN
            [y |-> f.y, lookAt |-> f.lookAt]
        ELSE IF offset < Hundredths(38) THEN
            LET t == Ratio(offset - Hundredths(35), Hundredths(3))
            IN  [y |-> lerp(f.y, n.y, t), lookAt |-> lerp(f.lookAt, n.lookAt, t)]
        ELSE IF offset < Hundredths(58) THEN
            [y |-> n.y, lookAt |-> n.lookAt]
        ELSE IF offset < Hundredths(61) THEN
            LET t == Ratio(offset - Hundredths(58), Hundredths(3))
            IN  [y |-> lerp(n.y, e.y, t), lookAt |-> lerp(n.lookAt, e.lookAt, t)]
        ELSE
            [y |-> e.y, lookAt |-> e.lookAt]

\* const targetX = isMobile ? 24 : 16
targetX(mobile) == IF mobile THEN 24 * Unit ELSE 16 * Unit

\* Math.sqrt(0.5 * 0.5 + 1 * 1)
startRadius == Sqrt((Unit \div 2) * (Unit \div 2) + Unit * Unit)

\* Math.sqrt(targetX * targetX + foundationCam.z * foundationCam.z)
endRadius(mobile) ==
    Sqrt(targetX(mobile) * targetX(mobile)
         + foundationCam(mobile).z * foundationCam(mobile).z)

\* Math.atan2(1, 0.5)
startAngle == Atan2(Unit, Unit \div 2)

\* Math.atan2(foundationCam.z, targetX)
endAngle(mobile) == Atan2(foundationCam(mobile).z, targetX(mobile))

\* xPos and zPos, as [x, z]: the intro keeps the camera near the axis and
\* then swings it out on a circular arc; every later phase is at
\* (targetX, cam.z), and cam.z is 12 for the three cameras.
CameraGround(offset, mobile) ==
    IF offset < Hundredths(18) THEN
        LET t == IntroT(offset) IN
        IF t < Frac \div 2
        THEN [x |-> Unit \div 2, z |-> Unit]
        ELSE LET eT == easedT(ArcT(t))
                 rad == lerp(startRadius, endRadius(mobile), eT)
                 angle == lerp(startAngle, endAngle(mobile), eT)
             IN  [x |-> (Cos(angle) * rad) \div TrigUnit,
                  z |-> (Sin(angle) * rad) \div TrigUnit]
    ELSE IF offset < Hundredths(38) THEN
        [x |-> targetX(mobile), z |-> foundationCam(mobile).z]
    ELSE IF offset < Hundredths(58) THEN
        [x |-> targetX(mobile), z |-> networkCam(mobile).z]
    ELSE
        [x |-> targetX(mobile), z |-> ecosystemCam(mobile).z]

\* const targetPos = { x: xPos, y: yPos, z: zPos }
TargetPos(offset, mobile) ==
    [x |-> CameraGround(offset, mobile).x,
     y |-> CameraHeight(offset, mobile).y,
     z |-> CameraGround(offset, mobile).z]

\* const targetLookAt = { x: 0, y: lookAtY, z: 0 }
TargetLookAt(offset, mobile) ==
    [x |-> 0, y |-> CameraHeight(offset, mobile).lookAt, z |-> 0]

\* const lerpFactor = Math.min(delta * 4, 1)
lerpFactor_half(delta) == Min(delta * 2, Frac)

lerpFactor(delta) == Min(delta * 4, Frac)

\* The three lerp assignments of a smoothing ref.
Smoothed(current, target, t) ==
    [x |-> lerp(current.x, target.x, t),
     y |-> lerp(current.y, target.y, t),
     z |-> lerp(current.z, target.z, t)]

\* Network layer opacity.
l2Opacity_blend(offset) == (layer2Opacity + Frac) \div 2

l2Opacity_blackoutFade(offset) ==
    IF offset < Hundredths(14) THEN Frac
    ELSE IF offset < Hundredths(18) THEN
        Frac - Ratio(offset - Hundredths(14), Hundredths(18) - Hundredths(14))
    ELSE IF offset < Hundredths(30) THEN 0
    ELSE IF offset < Hundredths(38) THEN
        Ratio(offset - Hundredths(30), Hundredths(8))
    ELSE IF offset < Hundredths(85) THEN Frac
    ELSE Max(0, Frac - Ratio(offset - Hundredths(85), Hundredths(3)))

l2Opacity(offset) ==
    IF offset < Hundredths(14) THEN Frac
    ELSE IF offset < Hundredths(18) THEN
        Frac - Ratio(offset - Hundredths(14), Hundredths(18) - Hundredths(14))
    ELSE IF offset < Hundredths(30) THEN 0
    ELSE IF offset < Hundredths(38) THEN
        Ratio(offset - Hundredths(30), Hundredths(8))
    ELSE Frac

\* Apps layer opacity.
l3Opacity_noIntroFade(offset) ==
    IF offset < Hundredths(18) THEN Frac
    ELSE IF offset < Hundredths(53) THEN 0
    ELSE IF offset < Hundredths(61) THEN
        Ratio(offset - Hundredths(53), Hundredths(8))
    ELSE IF offset < Hundredths(85) THEN Frac
    ELSE Frac - Ratio(offset - Hundredths(85), Hundredths(3))

l3Opacity(offset) ==
    IF offset < Hundredths(14) THEN Frac
    ELSE IF offset < Hundredths(18) THEN
        Frac - Ratio(offset - Hundredths(14), Hundredths(18) - Hundredths(14))
    ELSE IF offset < Hundredths(53) THEN 0
    ELSE IF offset < Hundredths(61) THEN
        Ratio(offset - Hundredths(53), Hundredths(8))
    ELSE IF offset < Hundredths(85) THEN Frac
    ELSE Frac - Ratio(offset - Hundredths(85), Hundredths(3))

FADED_OPACITY == Frac \div 10

LAYER_PAUSE == Hundredths(3)

\* Foundation to Network lines, as [growth, opacity].
foundationToNetwork_eased(offset) ==
    IF offset < Hundredths(18) + LAYER_PAUSE THEN [growth |-> 0, opacity |-> 0]
    ELSE IF offset < Hundredths(35) THEN
        LET growthProgress == Ratio(offset - Hundredths(18) - LAYER_PAUSE,
                                    Hundredths(17) - LAYER_PAUSE)
            eased == (growthProgress * growthProgress) \div Frac
        IN  [growth |-> eased, opacity |-> Min(Frac, eased * 2)]
    ELSE IF offset < Hundredths(38) THEN
        LET fadeProgress == Ratio(offset - Hundredths(35), Hundredths(3))
        IN  [growth |-> Frac, opacity |-> lerp(Frac, FADED_OPACITY, fadeProgress)]
    ELSE [growth |-> Frac, opacity |-> FADED_OPACITY]

foundationToNetwork(offset) ==
    IF offset < Hundredths(18) THEN [growth |-> 0, opacity |-> 0]
    ELSE IF offset < Hundredths(18) + LAYER_PAUSE THEN [growth |-> 0, opacity |-> 0]
    ELSE IF offset < Hundredths(35) THEN
        LET growthProgress == Ratio(offset - Hundredths(18) - LAYER_PAUSE,
                                    Hundredths(17) - LAYER_PAUSE)
        IN  [growth |-> growthProgress, opacity |-> Min(Frac, growthProgress * 2)]
    ELSE IF offset < Hundredths(38) THEN
        LET fadeProgress == Ratio(offset - Hundredths(35), Hundredths(3))
        IN  [growth |-> Frac, opacity |-> lerp(Frac, FADED_OPACITY, fadeProgress)]
    ELSE [growth |-> Frac, opacity |-> FADED_OPACITY]

\* Network to Ecosystem lines.
networkToEcosystem_fadeOut(offset) ==
    IF offset < Hundredths(38) + LAYER_PAUSE THEN [growth |-> 0, opacity |-> 0]
    ELSE IF offset < Hundredths(58) THEN
        LET growthProgress == Ratio(offset - Hundredths(38) - LAYER_PAUSE,
                                    Hundredths(20) - LAYER_PAUSE)
        IN  [growth |-> growthProgress, opacity |-> Min(Frac, growthProgress * 2)]
    ELSE IF offset < Hundredths(61) THEN
        LET fadeProgress == Ratio(offset - Hundredths(58), Hundredths(3))
        IN  [growth |-> Frac, opacity |-> lerp(Frac, 0, fadeProgress)]
    ELSE [growth |-> Frac, opacity |-> 0]

networkToEcosystem(offset) ==
    IF offset < Hundredths(38) THEN [growth |-> 0, opacity |-> 0]
    ELSE IF offset < Hundredths(38) + LAYER_PAUSE THEN [growth |-> 0, opacity |-> 0]
    ELSE IF offset < Hundredths(58) THEN
        LET growthProgress == Ratio(offset - Hundredths(38) - LAYER_PAUSE,
                                    Hundredths(20) - LAYER_PAUSE)
        IN  [growth |-> growthProgress, opacity |-> Min(Frac, growthProgress * 2)]
    ELSE IF offset < Hundredths(61) THEN
        LET fadeProgress == Ratio(offset - Hundredths(58), Hundredths(3))
        IN  [growth |-> Frac, opacity |-> lerp(Frac, FADED_OPACITY, fadeProgress)]
    ELSE [growth |-> Frac, opacity |-> FADED_OPACITY]

\* Ecosystem Upward lines.
ecosystemUpward(offset) ==
    IF offset < Hundredths(61) THEN [growth |-> 0, opacity |-> 0]
    ELSE IF offset < Hundredths(61) + LAYER_PAUSE THEN [growth |-> 0, opacity |-> 0]
    ELSE IF offset < Hundredths(78) THEN
        LET growthProgress == Ratio(offset - Hundredths(61) - LAYER_PAUSE,
                                    Hundredths(17) - LAYER_PAUSE)
        IN  [growth |-> growthProgress, opacity |-> Min(Frac, growthProgress * 2)]
    ELSE [growth |-> Frac, opacity |-> Frac]

\* groupRef.current.rotation.y += delta * 0.02
Rotated(rotation, delta) == rotation + (delta * 2) \div 100

\* The nine values a frame writes for the layers and the edge groups.
FrameValues ==
    <<layer1Opacity, layer2Opacity, layer3Opacity,
      foundationToNetworkGrowth, networkToEcosystemGrowth, ecosystemUpwardGrowth,
      foundationToNetworkOpacity, networkToEcosystemOpacity, ecosystemUpwardOpacity>>

\* One call of the useFrame callback, rendered with scrollProgress = offset.
\* obs keeps what the last two frames read and wrote.
useFrame(offset, delta) ==
    /\ scrollProgress' = offset
    /\ targetPos' = TargetPos(offset, isMobile)
    /\ targetLookAt' = TargetLookAt(offset, isMobile)
    /\ currentCameraPos' = Smoothed(currentCameraPos, targetPos', lerpFactor(delta))
    /\ currentLookAt' = Smoothed(currentLookAt, targetLookAt', lerpFactor(delta))
    /\ layer1Opacity' = Frac
    /\ layer2Opacity' = l2Opacity(offset)
    /\ layer3Opacity' = l3Opacity(offset)
    /\ foundationToNetworkGrowth' = foundationToNetwork(offset).growth
    /\ foundationToNetworkOpacity' = foundationToNetwork(offset).opacity
    /\ networkToEcosystemGrowth' = networkToEcosystem(offset).growth
    /\ networkToEcosystemOpacity' = networkToEcosystem(offset).opacity
    /\ ecosystemUpwardGrowth' = ecosystemUpward(offset).growth
    /\ ecosystemUpwardOpacity' = ecosystemUpward(offset).opacity
    /\ rotationY' = Rotated(rotationY, delta)
    /\ frames' = frames + 1
    /\ obs' = LET o == [cam0 |-> currentCameraPos, look0 |-> currentLookAt,
                        progress |-> offset, delta |-> delta,
                        cam1 |-> currentCameraPos', look1 |-> currentLookAt',
                        targetPos |-> targetPos', targetLookAt |-> targetLookAt',
                        values |-> FrameValues']
               IN  IF Len(obs) < 2 THEN Append(obs, o) ELSE <<obs[2], o>>
    /\ UNCHANGED <<isMobile, genVars, lineVars, appVars, pairVars>>

\* Bounds of the frame model.
MaxFrames == 2
MaxHistoryFrames == 3

\* Frame times: 1/60 s and 1/4 s.
Deltas == {Frac \div 60, Frac \div 4}

\* Every piece boundary of the frame update, a point inside every piece, and
\* a progress on either side of [0, 1].
ProgressSamples ==
    {Hundredths(n) : n \in {-5, 0, 5, 9, 12, 14, 16, 18, 20, 21, 28, 30, 33,
                            35, 38, 41, 50, 53, 58, 61, 64, 70, 78, 82, 85,
                            88, 94, 100, 105}}
        \cup {Hundredths(73) \div 2, Hundredths(119) \div 2}

CoarseSamples == {Hundredths(n) : n \in {12, 18, 33, 45, 61}} \cup {Hundredths(119) \div 2}

Experience_useFrame ==
    /\ frames < MaxFrames
    /\ \E offset \in ProgressSamples, delta \in Deltas : useFrame(offset, delta)

Experience_useFrame_Coarse ==
    /\ frames < MaxHistoryFrames
    /\ \E offset \in CoarseSamples, delta \in Deltas : useFrame(offset, delta)

\* The curves of the frame update on a fine grid: every 0.005 from -0.05 to
\* 1.05, and the progress just below 0.18.
MaxCurveFrames == 1

FineSamples ==
    {k * (ProgUnit \div 200) : k \in -10..210} \cup {Hundredths(18) - 1}

Experience_useFrame_Fine ==
    /\ frames < MaxCurveFrames
    /\ \E offset \in FineSamples : useFrame(offset, Frac \div 60)

\* The refs as useRef initialises them.
InitRefs ==
    /\ currentCameraPos = [x |-> 0, y |-> 50 * Unit, z |-> 0]
    /\ currentLookAt = [x |-> 0, y |-> 0, z |-> 0]
    /\ layer1Opacity = 0
    /\ layer2Opacity = 0
    /\ layer3Opacity = 0
    /\ foundationToNetworkGrowth = 0
    /\ networkToEcosystemGrowth = 0
    /\ ecosystemUpwardGrowth = 0
    /\ foundationToNetworkOpacity = 0
    /\ networkToEcosystemOpacity = 0
    /\ ecosystemUpwardOpacity = 0
    /\ rotationY = 0
    /\ targetPos = [x |-> 0, y |-> 0, z |-> 0]
    /\ targetLookAt = [x |-> 0, y |-> 0, z |-> 0]
    /\ frames = 0
    /\ obs = <<>>

-----------------------------------------------------------------------------
(* MainApp: the scroll state.  Progress values (scrollProgress,             *)
(* targetProgress, blackoutProgress, finalOverlayProgress and the two       *)
(* target refs) are integers in units of 1/ProgUnit.                        *)

MAX_SCROLL_PROGRESS_full == ProgUnit

MAX_SCROLL_PROGRESS == Hundredths(82)
BLACKOUT_START == Hundredths(80)
BLACKOUT_END == Hundredths(82)

\* const scrollHeight = 10000, in pixels.
scrollHeight == 10000

\* Progress units per pixel of the virtual scroll height.
PixelUnit == ProgUnit \div scrollHeight

\* One step of a smoothing loop: snap when closer than 0.001, otherwise move
\* by rate (in percent) of the gap.
Step_noSnap(prev, target, rate) == prev + ((target - prev) * rate) \div 100

Step(prev, target, rate) ==
    LET diff == target - prev
    IN  IF Abs(diff) < ProgUnit \div 1000 THEN target
        ELSE prev + (diff * rate) \div 100

\* The updater of the scroll smoothing loop.
animate_whileDragging(prev) ==
    Step(prev, targetProgress, IF isMobile THEN 5 ELSE 15)

animate(prev) ==
    IF isDragging THEN prev
    ELSE Step(prev, targetProgress, IF isMobile THEN 5 ELSE 15)

\* The updater of the blackout loop.
animateBlackout(prev) == Step(prev, blackoutTargetRef, IF isMobile THEN 5 ELSE 10)

\* The updater of the final overlay loop.
animateOverlay(prev) == Step(prev, finalOverlayTargetRef, IF isMobile THEN 5 ELSE 8)

\* The blackout target effect (desktop), as a function of scrollProgress.
BlackoutTarget_wideRamp(s) ==
    IF s >= Hundredths(78) /\ s < Hundredths(88)
    THEN ((s - Hundredths(78)) * (ProgUnit \div 10000)) \div (Hundredths(10) \div 10000)
    ELSE IF s >= Hundredths(88) THEN ProgUnit ELSE 0

BlackoutTarget_step(s) == IF s >= BLACKOUT_END THEN ProgUnit ELSE 0

BlackoutTarget(s) ==
    IF s >= BLACKOUT_START /\ s < BLACKOUT_END
    THEN ((s - BLACKOUT_START) * (ProgUnit \div 10000))
             \div ((BLACKOUT_END - BLACKOUT_START) \div 10000)
    ELSE IF s >= BLACKOUT_END THEN ProgUnit ELSE 0

\* The final overlay target effect.
OverlayTarget_onFinalPage(onFinalPage, blackout) ==
    IF onFinalPage THEN ProgUnit ELSE 0

OverlayTarget_strict(onFinalPage, blackout) ==
    IF onFinalPage /\ blackout > ProgUnit THEN ProgUnit ELSE 0

OverlayTarget(onFinalPage, blackout) ==
    IF onFinalPage /\ blackout >= Hundredths(95) THEN ProgUnit ELSE 0

\* One animation frame: the three requestAnimationFrame callbacks run their
\* updaters on the state and the refs of the last render, then the effects
\* whose dependencies changed run on the new state.
AnimationFrame ==
    /\ scrollProgress' = animate(scrollProgress)
    /\ blackoutProgress' = animateBlackout(blackoutProgress)
    /\ finalOverlayProgress' = animateOverlay(finalOverlayProgress)
    /\ blackoutTargetRef' =
           IF ~isMobile /\ scrollProgress' # scrollProgress
           THEN BlackoutTarget(scrollProgress')
           ELSE blackoutTargetRef
    /\ finalOverlayTargetRef' =
           IF blackoutProgress' # blackoutProgress
           THEN OverlayTarget(isOnFinalPage, blackoutProgress')
           ELSE finalOverlayTargetRef
    /\ UNCHANGED <<targetProgress, animationPhase, isDragging, isOnFinalPage,
                   activeCardIndex, touchVars, overlayTouchVars, request, events>>
    /\ UNCHANGED <<isMobile, genVars, lineVars, frameVars, pairVars>>

\* Bounds of the scroll model.  Up to MaxEvents input events (a wheel event,
\* a logo click, the start of a touch gesture) arrive at any time; further
\* ones, up to MaxSettledEvents in all, arrive once the animation loops have
\* come to rest.
MaxEvents == 1
MaxSettledEvents == 6

\* No animation loop would change its value in the next frame.
AtRest ==
    /\ animate(scrollProgress) = scrollProgress
    /\ animateBlackout(blackoutProgress) = blackoutProgress
    /\ animateOverlay(finalOverlayProgress) = finalOverlayProgress

InputAllowed == events < MaxEvents \/ (AtRest /\ events < MaxSettledEvents)

\* const phaseToIndex = { intro: 0, foundation: 1, network: 2, ecosystem: 3 }
phaseToIndex(phase) ==
    CASE phase = "intro" -> 0
      [] phase = "foundation" -> 1
      [] phase = "network" -> 2
      [] OTHER -> 3

\* The content pane's effect that syncs activeCardIndex with animationPhase:
\* the index after the effect, for the state after the render.
SyncedIndex(index, phase, dragging) ==
    IF ~isMobile \/ dragging THEN index ELSE phaseToIndex(phase)

\* e.deltaY of a wheel event, in pixels.
WheelDeltas == {-8200, -300, 150, 8200}

\* The wheel listener, registered on desktop only.
handleWheel(deltaY) ==
    /\ ~isMobile
    /\ InputAllowed
    /\ LET currentScroll == targetProgress
           newScroll == Max(0, Min(scrollHeight * PixelUnit,
                                   currentScroll + deltaY * PixelUnit))
           newProgress == Max(0, Min(MAX_SCROLL_PROGRESS, newScroll))
           phase == IF newProgress >= Hundredths(58) THEN "ecosystem"
                    ELSE IF newProgress >= Hundredths(35) THEN "network"
                    ELSE IF newProgress >= Hundredths(18) THEN "foundation"
                    ELSE "intro"
       IN  /\ targetProgress' = newProgress
           /\ animationPhase' = phase
           /\ isOnFinalPage' = (newProgress >= BLACKOUT_START)
           /\ finalOverlayTargetRef' =
                  IF isOnFinalPage' # isOnFinalPage
                  THEN OverlayTarget(isOnFinalPage', blackoutProgress)
                  ELSE finalOverlayTargetRef
    /\ events' = events + 1
    /\ UNCHANGED <<scrollProgress, blackoutProgress, finalOverlayProgress,
                   isDragging, blackoutTargetRef, activeCardIndex, touchVars,
                   overlayTouchVars, request>>
    /\ UNCHANGED <<isMobile, genVars, lineVars, frameVars, pairVars>>

\* What handleScrollProgress(scrollPosition) sets, as
\* [targetProgress, animationPhase, blackoutTargetRef].
Snapped_shifted(scrollPosition) ==
    IF scrollPosition < Hundredths(20) THEN
        [targetProgress |-> 0, animationPhase |-> "intro", blackoutTargetRef |-> 0]
    ELSE IF scrollPosition < Hundredths(25) THEN
        [targetProgress |-> Hundredths(18), animationPhase |-> "foundation",
         blackoutTargetRef |-> 0]
    ELSE IF scrollPosition < Hundredths(70) THEN
        [targetProgress |-> Hundredths(38), animationPhase |-> "network",
         blackoutTargetRef |-> 0]
    ELSE IF scrollPosition < Hundredths(95) THEN
        [targetProgress |-> Hundredths(61), animationPhase |-> "ecosystem",
         blackoutTargetRef |-> 0]
    ELSE
        [targetProgress |-> Hundredths(82), animationPhase |-> "ecosystem",
         blackoutTargetRef |-> ProgUnit]

Snapped(scrollPosition) ==
    IF isMobile THEN
        IF scrollPosition < Hundredths(20) THEN
            [targetProgress |-> 0, animationPhase |-> "intro", blackoutTargetRef |-> 0]
        ELSE IF scrollPosition < Hundredths(45) THEN
            [targetProgress |-> Hundredths(18), animationPhase |-> "foundation",
             blackoutTargetRef |-> 0]
        ELSE IF scrollPosition < Hundredths(70) THEN
            [targetProgress |-> Hundredths(38), animationPhase |-> "network",
             blackoutTargetRef |-> 0]
        ELSE IF scrollPosition < Hundredths(95) THEN
            [targetProgress |-> Hundredths(61), animationPhase |-> "ecosystem",
             blackoutTargetRef |-> 0]
        ELSE
            [targetProgress |-> Hundredths(82), animationPhase |-> "ecosystem",
             blackoutTargetRef |-> ProgUnit]
    ELSE
        [targetProgress |-> targetProgress, animationPhase |-> animationPhase,
         blackoutTargetRef |->
             IF scrollPosition > Hundredths(95)
             THEN Min(ProgUnit, ((scrollPosition - Hundredths(95)) * (ProgUnit \div 10000))
                                    \div (Hundredths(3) \div 10000))
             ELSE 0]

\* handleScrollProgress(scrollPosition), as its callers run it: the touch
\* handlers of the content pane and of the final overlay, and the logo's
\* onClick, all on mobile.  request records the position it was passed.
handleScrollProgress(scrollPosition) ==
    /\ targetProgress' = Snapped(scrollPosition).targetProgress
    /\ animationPhase' = Snapped(scrollPosition).animationPhase
    /\ blackoutTargetRef' = Snapped(scrollPosition).blackoutTargetRef
    /\ request' = <<scrollPosition>>

\* handleDragProgress(continuousProgress)
handleDragProgress(continuousProgress) == scrollProgress' = continuousProgress

\* The logo's onClick; on mobile it goes on to handleScrollProgress(0).
logoClick ==
    /\ InputAllowed
    /\ IF isMobile
       THEN handleScrollProgress(0)
       ELSE /\ targetProgress' = 0
            /\ animationPhase' = "intro"
            /\ blackoutTargetRef' = 0
            /\ request' = request
    /\ activeCardIndex' = SyncedIndex(activeCardIndex, animationPhase', isDragging)
    /\ events' = events + 1
    /\ UNCHANGED <<scrollProgress, blackoutProgress, finalOverlayProgress,
                   isDragging, isOnFinalPage, finalOverlayTargetRef, touchVars,
                   overlayTouchVars>>
    /\ UNCHANGED <<isMobile, genVars, lineVars, frameVars, pairVars>>

-----------------------------------------------------------------------------
(* ContentPane: the touch handlers of the mobile layout.  A touch position  *)
(* is a clientY in pixels; a state that holds null or a position is the     *)
(* empty sequence or a one-element sequence.                                *)

\* !v for such a state: null and 0 are falsy.
Falsy(v) == v = <<>> \/ v[1] = 0

\* window.innerHeight, in pixels.
innerHeight == 800

\* clientY of the touches.
TouchStarts == {400}
TouchMoves == {0, 300, 380, 500}

\* const snapPoints = [0, 0.18, 0.38, 0.61, 0.82]
snapPoints ==
    <<0, Hundredths(18), Hundredths(38), Hundredths(61), Hundredths(82)>>

\* The opacity above which the final overlay takes pointer events.
OverlayCaptures == finalOverlayProgress > Hundredths(90)

handleTouchStart(y) ==
    /\ isMobile
    /\ ~isDragging
    /\ ~OverlayCaptures
    /\ InputAllowed
    /\ isDragging' = TRUE
    /\ touchStart' = <<y>>
    /\ touchCurrent' = <<y>>
    /\ events' = events + 1
    /\ UNCHANGED <<scrollProgress, targetProgress, animationPhase, blackoutProgress,
                   finalOverlayProgress, isOnFinalPage, blackoutTargetRef,
                   finalOverlayTargetRef, activeCardIndex, overlayTouchVars, request>>
    /\ UNCHANGED <<isMobile, genVars, lineVars, frameVars, pairVars>>

\* The progress handleTouchMove passes to onDragProgress for a touch at y.
DragProgress(y) ==
    LET dragDistance == touchStart[1] - y
        dampenedProgress == (dragDistance * 4 * (ProgUnit \div 10)) \div innerHeight
        baseProgress == IF isOnFinalPage THEN Hundredths(82)
                        ELSE snapPoints[activeCardIndex + 1]
        nextSnap == IF isOnFinalPage THEN Hundredths(82)
                    ELSE IF activeCardIndex = 3 THEN Hundredths(82)
                    ELSE snapPoints[activeCardIndex + 2]
        prevSnap == IF isOnFinalPage THEN Hundredths(61)
                    ELSE IF activeCardIndex = 3 THEN
                        (IF snapPoints[activeCardIndex] = 0 THEN baseProgress
                         ELSE snapPoints[activeCardIndex])
                    ELSE IF activeCardIndex = 0 THEN baseProgress
                    ELSE snapPoints[activeCardIndex]
    IN  Max(prevSnap, Min(nextSnap, baseProgress + dampenedProgress))

handleTouchMove(y) ==
    /\ isMobile
    /\ isDragging
    /\ IF Falsy(touchStart)
       THEN UNCHANGED <<touchCurrent, scrollProgress>>
       ELSE /\ touchCurrent' = <<y>>
            /\ handleDragProgress(DragProgress(y))
    /\ UNCHANGED <<touchStart, targetProgress, animationPhase, blackoutProgress,
                   finalOverlayProgress, isDragging, isOnFinalPage, blackoutTargetRef,
                   finalOverlayTargetRef, activeCardIndex, overlayTouchVars, request,
                   events>>
    /\ UNCHANGED <<isMobile, genVars, lineVars, frameVars, pairVars>>

swipeThreshold == 50

\* What handleTouchEnd decides for a swipe of the given distance, as
\* [index, onFinalPage, position]: the new activeCardIndex, the new
\* isOnFinalPage and the position passed to onScrollProgress.
TouchEndResult(distance) ==
    LET isSwipeUp == distance > swipeThreshold
        isSwipeDown == distance < -swipeThreshold
    IN  IF isSwipeUp /\ activeCardIndex < 3 THEN
            [index |-> activeCardIndex + 1, onFinalPage |-> FALSE,
             position |-> ((activeCardIndex + 1) * ProgUnit) \div 4]
        ELSE IF isSwipeUp /\ activeCardIndex = 3 /\ ~isOnFinalPage THEN
            [index |-> activeCardIndex, onFinalPage |-> TRUE, position |-> ProgUnit]
        ELSE IF isSwipeDown /\ isOnFinalPage THEN
            [index |-> activeCardIndex, onFinalPage |-> FALSE,
             position |-> Hundredths(75)]
        ELSE IF isSwipeDown /\ activeCardIndex > 0 THEN
            [index |-> activeCardIndex - 1, onFinalPage |-> FALSE,
             position |-> ((activeCardIndex - 1) * ProgUnit) \div 4]
        ELSE IF isOnFinalPage THEN
            [index |-> activeCardIndex, onFinalPage |-> isOnFinalPage,
             position |-> ProgUnit]
        ELSE
            [index |-> activeCardIndex, onFinalPage |-> isOnFinalPage,
             position |-> (activeCardIndex * ProgUnit) \div 4]

handleTouchEnd ==
    /\ isMobile
    /\ isDragging
    /\ isDragging' = FALSE
    /\ IF Falsy(touchStart) \/ Falsy(touchCurrent)
       THEN /\ activeCardIndex' = SyncedIndex(activeCardIndex, animationPhase, FALSE)
            /\ UNCHANGED <<touchVars, targetProgress, animationPhase, isOnFinalPage,
                           blackoutTargetRef, finalOverlayTargetRef, request>>
       ELSE LET r == TouchEndResult(touchStart[1] - touchCurrent[1])
            IN  /\ handleScrollProgress(r.position)
                /\ isOnFinalPage' = r.onFinalPage
                /\ activeCardIndex' = SyncedIndex(r.index, animationPhase', FALSE)
                /\ touchStart' = <<>>
                /\ touchCurrent' = <<>>
                /\ finalOverlayTargetRef' =
                       IF isOnFinalPage' # isOnFinalPage
                       THEN OverlayTarget(isOnFinalPage', blackoutProgress)
                       ELSE finalOverlayTargetRef
    /\ UNCHANGED <<scrollProgress, blackoutProgress, finalOverlayProgress,
                   overlayTouchVars, events>>
    /\ UNCHANGED <<isMobile, genVars, lineVars, frameVars, pairVars>>

-----------------------------------------------------------------------------
(* MainApp: the touch handlers of the final overlay, which takes pointer    *)
(* events while its opacity is above 0.9.                                   *)

OverlayMoves == {300, 500}

handleFinalOverlayTouchStart(y) ==
    /\ isMobile
    /\ OverlayCaptures
    /\ ~overlayTouch
    /\ ~isDragging
    /\ InputAllowed
    /\ finalOverlayTouchEnd' = <<>>
    /\ finalOverlayTouchStart' = <<y>>
    /\ overlayTouch' = TRUE
    /\ events' = events + 1
    /\ UNCHANGED <<scrollProgress, targetProgress, animationPhase, blackoutProgress,
                   finalOverlayProgress, isDragging, isOnFinalPage, blackoutTargetRef,
                   finalOverlayTargetRef, activeCardIndex, touchVars, request>>
    /\ UNCHANGED <<isMobile, genVars, lineVars, frameVars, pairVars>>

handleFinalOverlayTouchMove(y) ==
    /\ isMobile
    /\ overlayTouch
    /\ finalOverlayTouchEnd' = <<y>>
    /\ UNCHANGED <<scrollProgress, targetProgress, animationPhase, blackoutProgress,
                   finalOverlayProgress, isDragging, isOnFinalPage, blackoutTargetRef,
                   finalOverlayTargetRef, activeCardIndex, touchVars,
                   finalOverlayTouchStart, overlayTouch, request, events>>
    /\ UNCHANGED <<isMobile, genVars, lineVars, frameVars, pairVars>>

handleFinalOverlayTouchEnd ==
    /\ isMobile
    /\ overlayTouch
    /\ overlayTouch' = FALSE
    /\ IF Falsy(finalOverlayTouchStart) \/ Falsy(finalOverlayTouchEnd)
       THEN UNCHANGED <<targetProgress, animationPhase, isOnFinalPage,
                        blackoutTargetRef, finalOverlayTargetRef, activeCardIndex,
                        request>>
       ELSE LET distance == finalOverlayTouchStart[1] - finalOverlayTouchEnd[1]
                isSwipeDown == distance < -50
            IN  IF isSwipeDown
                THEN /\ isOnFinalPage' = FALSE
                     /\ handleScrollProgress(Hundredths(75))
                     /\ activeCardIndex' =
                            SyncedIndex(activeCardIndex, animationPhase', isDragging)
                     /\ finalOverlayTargetRef' =
                            IF isOnFinalPage' # isOnFinalPage
                            THEN OverlayTarget(isOnFinalPage', blackoutProgress)
                            ELSE finalOverlayTargetRef
                ELSE UNCHANGED <<targetProgress, animationPhase, isOnFinalPage,
                                 blackoutTargetRef, finalOverlayTargetRef,
                                 activeCardIndex, request>>
    /\ UNCHANGED <<scrollProgress, blackoutProgress, finalOverlayProgress,
                   isDragging, touchVars, finalOverlayTouchStart,
                   finalOverlayTouchEnd, events>>
    /\ UNCHANGED <<isMobile, genVars, lineVars, frameVars, pairVars>>

\* The state of MainApp and of its content pane as useState and useRef
\* initialise it.
InitMainApp ==
    /\ targetProgress = 0
    /\ animationPhase = "intro"
    /\ blackoutProgress = 0
    /\ finalOverlayProgress = 0
    /\ isDragging = FALSE
    /\ isOnFinalPage = FALSE
    /\ blackoutTargetRef = 0
    /\ finalOverlayTargetRef = 0
    /\ activeCardIndex = 0
    /\ touchStart = <<>>
    /\ touchCurrent = <<>>
    /\ finalOverlayTouchStart = <<>>
    /\ finalOverlayTouchEnd = <<>>
    /\ overlayTouch = FALSE
    /\ request = <<>>
    /\ events = 0

-----------------------------------------------------------------------------
(* InterLayerLines.nodePairs: the random-subset edges between two layers.   *)
(* startNodes and endNodes are what generateNodePositions returned for the  *)
(* two layers; a pair also records, as history, the indices of its nodes.   *)

\* const offset = rng() * 0.6, in 1/Frac
RandOffset(r) == (r * ((6 * Frac) \div 10)) \div RngModulus

\* Array.from({ length: n }, (_, i) => i)
Indices_first(n) == [k \in 1..n |-> 0]

Indices(n) == [k \in 1..n |-> k - 1]

\* The Fisher-Yates loop from index i down to 1, drawing from generator g.
RECURSIVE Shuffle(_, _, _)
Shuffle(indices, i, g) ==
    IF i <= 0 THEN [indices |-> indices, g |-> g]
    ELSE LET g1 == Call(g)
             j == RandIndex(g1.state, i + 1)
             swapped == [indices EXCEPT ![i + 1] = indices[j + 1],
                                        ![j + 1] = indices[i + 1]]
         IN  Shuffle(swapped, i - 1, g1)

\* Math.min(numLines, startNodes.length, endNodes.length)
PairCount_allNodes(n, a, b) == Min(a, b)

PairCount(n, a, b) == Min(n, Min(a, b))

\* The connecting loop from i on.
RECURSIVE ConnectPairs(_, _, _, _, _)
ConnectPairs(i, n, starts, ends, g) ==
    IF i >= n THEN <<>>
    ELSE LET startNode == startNodes[starts[i + 1] + 1]
             endNode == endNodes[ends[i + 1] + 1]
             g1 == Call(g)
             pair == [start |-> <<startNode.x, startY + startNode.y, startNode.z>>,
                      end |-> <<endNode.x, endY + endNode.y, endNode.z>>,
                      offset |-> RandOffset(g1.state),
                      from |-> starts[i + 1],
                      to |-> ends[i + 1]]
         IN  <<pair>> \o ConnectPairs(i + 1, n, starts, ends, g1)

\* The nodePairs memo.
nodePairs_Memo ==
    /\ pairsPc = "pending"
    /\ LET g0 == [state |-> seededRandom((startY \div Unit) * 1000 + endY \div Unit),
                  draws |-> 0]
           s == Shuffle(Indices(Len(startNodes)), Len(startNodes) - 1, g0)
           e == Shuffle(Indices(Len(endNodes)), Len(endNodes) - 1, s.g)
           n == PairCount(numLines, Len(startNodes), Len(endNodes))
       IN  /\ nodePairs' = ConnectPairs(0, n, s.indices, e.indices, e.g)
           /\ startIndices' = s.indices
           /\ endIndices' = e.indices
    /\ pairsPc' = "done"
    /\ UNCHANGED <<startNodes, endNodes, numLines, startY, endY>>
    /\ UNCHANGED <<genVars, lineVars, propVars, frameVars, appVars>>

\* Bounds of the pair model.
MaxPairNodes == 4
MaxLines == 4

\* n distinct nodes of a layer.
NodeRow(n) == [k \in 1..n |-> [x |-> k * Unit, y |-> 10 * k - 25, z |-> -k * Unit]]

\* startY and endY of the three line groups of the scene.
LayerHeights ==
    {[startY |-> 0, endY |-> 8 * Unit], [startY |-> 8 * Unit, endY |-> 16 * Unit],
     [startY |-> 16 * Unit, endY |-> 24 * Unit]}

\* The pair state of a component that builds no pairs.
IdlePairs ==
    /\ startNodes = <<>>
    /\ endNodes = <<>>
    /\ numLines = 0
    /\ startY = 0
    /\ endY = 0
    /\ pairsPc = "done"
    /\ startIndices = <<>>
    /\ endIndices = <<>>
    /\ nodePairs = <<>>

-----------------------------------------------------------------------------
(* Node generation: the props are fixed, the memo is computed MaxRuns times *)
(* by either component.                                                     *)

\* The line-building state of a component that builds no lines.
IdleLines ==
    /\ particles = <<>>
    /\ connectTo = <<>>
    /\ connectInternal = FALSE
    /\ linesPc = "done"
    /\ internalLines = <<>>
    /\ externalLines = <<>>

InitGen ==
    /\ IdlePairs
    /\ IdleLines
    /\ InitRefs
    /\ InitMainApp
    /\ scrollProgress = 0
    /\ isMobile = FALSE
    /\ count \in 1..MaxCount
    /\ radius \in Radii
    /\ seed \in Seeds
    /\ impl = "LayerNodes"
    /\ pc = "idle"
    /\ minDist = 0
    /\ state = 0
    /\ draws = 0
    /\ temp = <<>>
    /\ activeList = <<>>
    /\ lastStep = [kind |-> "none", attempts |-> 0, draws |-> 0]
    /\ results = <<>>

NextGen ==
    \/ particles_Seeds
    \/ particles_Iterate
    \/ particles_Return
    \/ generateNodePositions_Seeds
    \/ generateNodePositions_Iterate
    \/ generateNodePositions_Return

SpecGen == InitGen /\ [][NextGen]_vars

-----------------------------------------------------------------------------
(* Claims about node generation *)

\* C1: node generation is deterministic: two runs of the same generator for
\* the same (count, radius, seed) return the same sequence of nodes, in the
\* same order and of the same length.
C1_Deterministic ==
    \A i, j \in 1..Len(results) :
        results[i].impl = results[j].impl => results[i].nodes = results[j].nodes

\* Two completed runs of LayerNodes.particles that went through the loop.
C1_Witness ==
    /\ Len(results) = 2
    /\ results[1].impl = "LayerNodes" /\ results[2].impl = "LayerNodes"
    /\ Len(results[2].nodes) > numSeeds

\* The draws of one step, as the claim counts them.
DrawsAsClaimed ==
    CASE lastStep.kind = "accept" -> lastStep.draws = 1 + 2 * lastStep.attempts + 1
      [] lastStep.kind = "remove" -> lastStep.draws = 1 + 2 * lastStep.attempts
      [] lastStep.kind = "seeds"  -> draws = numSeeds
      [] OTHER -> TRUE

\* C2: generateNodePositions returns exactly the sequence of (x, y, z) that
\* LayerNodes.particles returns, and both consume the random stream alike:
\* one draw per seed point, per step one draw for the index, two per
\* candidate and one more for y on acceptance.
C2_GeneratorsAgree ==
    /\ \A i, j \in 1..Len(results) :
          results[i].impl # results[j].impl
              => /\ results[i].nodes = results[j].nodes
                 /\ results[i].draws = results[j].draws
    /\ DrawsAsClaimed

\* One completed run of each generator, both beyond the seed points.
C2_Witness ==
    /\ Len(results) = 2
    /\ results[1].impl = "LayerNodes" /\ results[2].impl = "InterLayerLines"
    /\ Len(results[1].nodes) > numSeeds
    /\ results[1].draws > numSeeds

InAnnulus(p) ==
    LET d2 == p.x * p.x + p.z * p.z
    IN  ~SqrtLess(d2, (radius * 15) \div 100) /\ ~SqrtGreater(d2, radius)

\* C3: every returned node, the seed points included, lies in the annulus
\* 0.15 radius <= |(x,z)| <= radius and every two distinct nodes are at
\* planar distance >= radius / sqrt(count) * 1.8.
C3_AnnulusAndSpacing ==
    \A k \in 1..Len(results) :
        LET nodes == results[k].nodes
        IN  /\ \A i \in 1..Len(nodes) : InAnnulus(nodes[i])
            /\ \A i, j \in 1..Len(nodes) :
                  i # j => ~SqrtLess(Dist2(nodes[i].x, nodes[i].z,
                                           nodes[j].x, nodes[j].z),
                                     MinDist(count, radius))

\* list with one element removed
IsRemovalOf(shorter, list) ==
    \E k \in 1..Len(list) :
        shorter = [n \in 1..(Len(list) - 1) |-> IF n < k THEN list[n] ELSE list[n + 1]]

LoopCondition == Len(activeList) > 0 /\ Len(temp) < count

\* What is left to do: a natural number while the loop runs, strictly smaller
\* after every iteration, so the loop cannot run forever.
Variant == 2 * (count - Len(temp)) + Len(activeList)

\* C4: node generation terminates: each loop iteration either accepts one
\* new point, added to both lists, or after 30 failed candidates removes one
\* point from the active list and keeps it accepted; the loop ends as soon
\* as the active list is empty or the accepted list has count points.
C4_Terminates ==
    [][pc = "loop" =>
            IF LoopCondition
            THEN /\ pc' = "loop"
                 /\ Variant' < Variant /\ Variant' >= 0
                 /\ \/ /\ Len(temp') = Len(temp) + 1
                       /\ SubSeq(temp', 1, Len(temp)) = temp
                       /\ Len(activeList') = Len(activeList) + 1
                       /\ SubSeq(activeList', 1, Len(activeList)) = activeList
                       /\ activeList'[Len(activeList')].x = temp'[Len(temp')].x
                       /\ activeList'[Len(activeList')].z = temp'[Len(temp')].z
                       /\ lastStep'.attempts <= maxAttempts
                    \/ /\ temp' = temp
                       /\ IsRemovalOf(activeList', activeList)
                       /\ lastStep'.attempts = maxAttempts
            ELSE /\ pc' = "idle"
                 /\ results' = Append(results,
                        [impl |-> impl, nodes |-> temp, draws |-> draws])
    ]_vars

\* A run that accepted points and ended with the active list empty, short of
\* count.
C4_Witness ==
    /\ pc = "idle" /\ Len(results) >= 1
    /\ activeList = <<>>
    /\ numSeeds < Len(temp) /\ Len(temp) < count

-----------------------------------------------------------------------------
(* LayerNodes: internalLines and externalLines.  A node is a record         *)
(* [x, y, z]; an edge is kept as the pair of the indices (from 0, as in the *)
(* source) of the two node objects it joins.                                *)

MaxNodes == 4
MaxTargets == 4

\* THREE.Vector3.distanceTo
distanceTo(p1, p2) ==
    Sqrt((p1.x - p2.x) * (p1.x - p2.x) + (p1.y - p2.y) * (p1.y - p2.y)
         + (p1.z - p2.z) * (p1.z - p2.z))

\* Array.prototype.sort((a, b) => a.dist - b.dist): stable, ascending.
RECURSIVE InsertByDist(_, _)
InsertByDist(sorted, e) ==
    IF sorted = <<>> THEN <<e>>
    ELSE IF e.dist < sorted[Len(sorted)].dist
         THEN Append(InsertByDist(SubSeq(sorted, 1, Len(sorted) - 1), e),
                     sorted[Len(sorted)])
         ELSE Append(sorted, e)

RECURSIVE SortByDist(_)
SortByDist(list) ==
    IF list = <<>> THEN <<>>
    ELSE InsertByDist(SortByDist(SubSeq(list, 1, Len(list) - 1)), list[Len(list)])

\* list.slice(0, n)
Slice(list, n) == SubSeq(list, 1, Min(n, Len(list)))

\* lists[k] \o ... \o lists[Len(lists)]: the pushes of a forEach, in order
RECURSIVE Concat(_, _)
Concat(lists, k) ==
    IF k > Len(lists) THEN <<>> ELSE lists[k] \o Concat(lists, k + 1)

\* The neighbours of node i: every other node with its distance, in index order.
Neighbors(i) ==
    LET others == [j \in 0..(Len(particles) - 2) |-> IF j < i THEN j ELSE j + 1]
    IN  [k \in 1..(Len(particles) - 1) |->
            [idx |-> others[k - 1],
             dist |-> distanceTo(particles[i + 1], particles[others[k - 1] + 1])]]

\* An emit test that forgets the index order (a variant used to test C5).
EmitInternal_always(i, n) == TRUE

\* if (i < n.idx)
EmitInternal(i, n) == i < n.idx

\* The edges pushed while visiting node i (lines 138-149).
InternalOf(i) ==
    LET nearest == Slice(SortByDist(Neighbors(i)), 2)
        kept == [k \in 1..Len(nearest) |->
                    IF EmitInternal(i, nearest[k])
                    THEN << <<i, nearest[k].idx>> >> ELSE <<>>]
    IN  Concat(kept, 1)

\* A fan-out without the cap of 3 (a variant used to test C6).
connectionsPerNode_uncapped(a, b) == (b + a - 1) \div a

\* Math.min(3, Math.ceil(connectTo.length / particles.length))
connectionsPerNode(a, b) == Min(3, (b + a - 1) \div a)

\* The edges of a source node without the distance cutoff (a variant used to
\* test C17).
ExternalOf_noCutoff(i) ==
    LET nearestNodes == SortByDist(
            [k \in 1..Len(connectTo) |->
                [idx |-> k - 1, dist |-> distanceTo(particles[i + 1], connectTo[k])]])
        nearest == Slice(nearestNodes,
                         connectionsPerNode(Len(particles), Len(connectTo)))
    IN  [k \in 1..Len(nearest) |-> <<i, nearest[k].idx>>]

\* The edges pushed while visiting source node i (lines 157-171).
ExternalOf(i) ==
    LET nearestNodes == SortByDist(
            [k \in 1..Len(connectTo) |->
                [idx |-> k - 1, dist |-> distanceTo(particles[i + 1], connectTo[k])]])
        nearest == Slice(nearestNodes,
                         connectionsPerNode(Len(particles), Len(connectTo)))
        kept == [k \in 1..Len(nearest) |->
                    IF nearest[k].dist < radius * 3
                    THEN << <<i, nearest[k].idx>> >> ELSE <<>>]
    IN  Concat(kept, 1)

\* The useMemo of lines 131-176.
lines_Memo ==
    /\ linesPc = "pending"
    /\ internalLines' =
          IF connectInternal
          THEN Concat([k \in 1..Len(particles) |-> InternalOf(k - 1)], 1)
          ELSE <<>>
    /\ externalLines' =
          IF Len(connectTo) > 0
          THEN Concat([k \in 1..Len(particles) |-> ExternalOf(k - 1)], 1)
          ELSE <<>>
    /\ linesPc' = "done"
    /\ UNCHANGED <<particles, connectTo, connectInternal>>
    /\ UNCHANGED <<genVars, propVars, frameVars, appVars, pairVars>>

\* Node positions of the line-building model: on the x axis, so that near,
\* boundary (3 radius) and far pairs all occur for radius = Unit.  The nodes
\* of a layer lie at different positions, as sampled nodes do.
NodePositions == {[x |-> c * Unit, y |-> 0, z |-> 0] : c \in {0, 1, 3, 4}}
TargetPositions == {[x |-> c * Unit, y |-> 0, z |-> 0] : c \in {0, 4}}

SeqsUpTo(S, n) == UNION {[1..k -> S] : k \in 0..n}

DistinctSeqsUpTo(S, n) ==
    {s \in SeqsUpTo(S, n) : \A a, b \in 1..Len(s) : a # b => s[a] # s[b]}

\* The generator state of a component whose nodes are given.
IdleGen ==
    /\ count = 1
    /\ seed = 0
    /\ impl = "LayerNodes"
    /\ pc = "idle"
    /\ minDist = 0
    /\ state = 0
    /\ draws = 0
    /\ temp = <<>>
    /\ activeList = <<>>
    /\ lastStep = [kind |-> "none", attempts |-> 0, draws |-> 0]
    /\ results = <<>>

InitLines ==
    /\ IdlePairs
    /\ IdleGen
    /\ InitRefs
    /\ InitMainApp
    /\ scrollProgress = 0
    /\ isMobile = FALSE
    /\ radius = Unit
    /\ particles \in DistinctSeqsUpTo(NodePositions, MaxNodes)
    /\ connectTo \in SeqsUpTo(TargetPositions, MaxTargets)
    /\ connectInternal \in BOOLEAN
    /\ linesPc = "pending"
    /\ internalLines = <<>>
    /\ externalLines = <<>>

NextLines == lines_Memo

SpecLines == InitLines /\ [][NextLines]_vars

-----------------------------------------------------------------------------
(* Claims about line building *)

\* C5: internal edge building never emits a duplicate: no pair (i,j)
\* together with (j,i), no pair twice, and every emitted edge has its source
\* index strictly below its target index.
C5_NoDuplicateInternal ==
    /\ \A a \in 1..Len(internalLines) : internalLines[a][1] < internalLines[a][2]
    /\ \A a, b \in 1..Len(internalLines) :
          a # b => /\ internalLines[a] # internalLines[b]
                   /\ internalLines[a] # <<internalLines[b][2], internalLines[b][1]>>

\* Internal edges were built for a layer of at least 3 nodes.
C5_Witness ==
    /\ linesPc = "done" /\ connectInternal
    /\ Len(particles) >= 3
    /\ Len(internalLines) >= 2

EdgesFrom(i) == {k \in 1..Len(externalLines) : externalLines[k][1] = i}

\* C6: towards a non-empty layer B every source node of A has at most
\* min(3, ceil(|B|/|A|)) emitted edges, so at most 3 |A| edges in total.
C6_ExternalFanOut ==
    Len(connectTo) > 0 =>
        /\ \A i \in 0..(Len(particles) - 1) :
              LET perNode == (Len(connectTo) + Len(particles) - 1) \div Len(particles)
              IN  Cardinality(EdgesFrom(i)) <= Min(3, perNode)
        /\ Len(externalLines) <= 3 * Len(particles)

\* A source node with 3 edges although the target layer has more nodes.
C6_Witness ==
    /\ linesPc = "done"
    /\ Len(connectTo) > 3
    /\ \E i \in 0..(Len(particles) - 1) : Cardinality(EdgesFrom(i)) = 3

-----------------------------------------------------------------------------
(* The frame update on its own: the scene is rendered with a progress of    *)
(* ProgressSamples and a frame runs, MaxFrames times.                       *)

InitFrame ==
    /\ IdlePairs
    /\ IdleGen
    /\ radius = Unit
    /\ IdleLines
    /\ InitMainApp
    /\ InitRefs
    /\ scrollProgress = 0
    /\ isMobile \in BOOLEAN

NextFrame == Experience_useFrame

SpecFrame == InitFrame /\ [][NextFrame]_vars

\* The same with fewer progress values and one more frame.
NextFrameHistory == Experience_useFrame_Coarse

SpecFrameHistory == InitFrame /\ [][NextFrameHistory]_vars

\* One frame at a progress of the fine grid.
NextCurves == Experience_useFrame_Fine

SpecCurves == InitFrame /\ [][NextCurves]_vars

-----------------------------------------------------------------------------
(* MainApp: input events and animation frames.                              *)

Init ==
    /\ IdlePairs
    /\ IdleGen
    /\ radius = Unit
    /\ IdleLines
    /\ InitRefs
    /\ InitMainApp
    /\ scrollProgress = 0
    /\ isMobile \in BOOLEAN

Next ==
    \/ AnimationFrame
    \/ \E deltaY \in WheelDeltas : handleWheel(deltaY)
    \/ logoClick
    \/ \E y \in TouchStarts : handleTouchStart(y)
    \/ \E y \in TouchMoves : handleTouchMove(y)
    \/ handleTouchEnd
    \/ \E y \in TouchStarts : handleFinalOverlayTouchStart(y)
    \/ \E y \in OverlayMoves : handleFinalOverlayTouchMove(y)
    \/ handleFinalOverlayTouchEnd

Spec == Init /\ [][Next]_vars

-----------------------------------------------------------------------------
(* Claims about the frame update *)

InUnitInterval(v) == v >= 0 /\ v <= Frac

\* C7: for every progress input, including values below 0 and above 1, each
\* of the three layer opacities, the three growth fractions and the three
\* edge-group opacities a frame computes lies in [0, 1].
C7_ClampedToUnitInterval ==
    frames > 0 => \A k \in 1..Len(FrameValues) : InUnitInterval(FrameValues[k])

\* The static phase of a progress: "foundation" on [0.18, 0.35), "network"
\* on [0.38, 0.58), "ecosystem" from 0.61, "none" elsewhere.
StaticPhase(p) ==
    IF p >= 180000 /\ p < 350000 THEN "foundation"
    ELSE IF p >= 380000 /\ p < 580000 THEN "network"
    ELSE IF p >= 610000 THEN "ecosystem"
    ELSE "none"

\* The documented pose of a static phase, as [pos, lookAt] in 1/Unit.
PhasePose(phase, mobile) ==
    LET x == IF mobile THEN 24000 ELSE 16000
        off == IF mobile THEN -4000 ELSE 0
        y == CASE phase = "foundation" -> 6500
               [] phase = "network" -> 14500
               [] OTHER -> 20500
        l == CASE phase = "foundation" -> 1200
               [] phase = "network" -> 9500
               [] OTHER -> 17500
    IN  [pos |-> [x |-> x, y |-> y, z |-> 12000],
         lookAt |-> [x |-> 0, y |-> l + off, z |-> 0]]

\* C8 as stated: a frame at progress 0.18 yields the foundation pose exactly,
\* and after a frame in a static phase the camera is on the phase pose.
C8_CameraOnPhasePose ==
    (frames > 0 /\ StaticPhase(scrollProgress) # "none") =>
        /\ currentCameraPos = PhasePose(StaticPhase(scrollProgress), isMobile).pos
        /\ currentLookAt = PhasePose(StaticPhase(scrollProgress), isMobile).lookAt

\* C8, amended: a frame at progress 0.18, and at every progress of a static
\* phase, sets the camera TARGET to the phase pose exactly; the camera is
\* smoothed towards the target, and is on the pose after a frame whose
\* delta is at least 1/4 s (lerp factor 1).
C8_TargetOnPhasePose ==
    (frames > 0 /\ StaticPhase(scrollProgress) # "none") =>
        LET pose == PhasePose(StaticPhase(scrollProgress), isMobile)
        IN  /\ targetPos = pose.pos
            /\ targetLookAt = pose.lookAt
            /\ obs[Len(obs)].delta * 4 >= Frac =>
                   /\ currentCameraPos = pose.pos
                   /\ currentLookAt = pose.lookAt

C8_Witness ==
    /\ frames > 0
    /\ isMobile
    /\ scrollProgress = 180000
    /\ obs[Len(obs)].delta * 4 >= Frac
    /\ obs[Len(obs)].cam0 # currentCameraPos
    /\ currentCameraPos = [x |-> 24000, y |-> 6500, z |-> 12000]
    /\ currentLookAt = [x |-> 0, y |-> -2800, z |-> 0]

\* C10: the frame update has no hidden accumulation.  Of the last two
\* frames, if both read the same progress they computed the same camera
\* target, layer opacities, growth fractions and edge opacities; and if they
\* also started from the same smoothing refs with the same delta they wrote
\* the same camera pose.
C10_NoHiddenAccumulation ==
    (Len(obs) = 2 /\ obs[1].progress = obs[2].progress) =>
        /\ obs[1].targetPos = obs[2].targetPos
        /\ obs[1].targetLookAt = obs[2].targetLookAt
        /\ obs[1].values = obs[2].values
        /\ (/\ obs[1].cam0 = obs[2].cam0
            /\ obs[1].look0 = obs[2].look0
            /\ obs[1].delta = obs[2].delta) =>
               /\ obs[1].cam1 = obs[2].cam1
               /\ obs[1].look1 = obs[2].look1

C10_Witness ==
    /\ frames = 3
    /\ Len(obs) = 2
    /\ obs[1].progress = obs[2].progress
    /\ obs[1].cam0 = obs[2].cam0
    /\ obs[1].look0 = obs[2].look0
    /\ obs[1].delta = obs[2].delta
    /\ obs[1].cam1 = obs[2].cam1
    /\ obs[1].values = obs[2].values
    /\ rotationY > 0

-----------------------------------------------------------------------------
(* Claims about the scroll state *)

\* C9 as stated: at scroll progress 0.82 the blackout progress is 1.
C9_BlackoutCompleteAtEnd ==
    scrollProgress = 820000 => blackoutProgress = ProgUnit

\* C9, amended: on desktop, the frame that brings the scroll progress to
\* 0.82 sets the blackout TARGET to 1; the blackout progress is at that
\* moment still below 1, and only the following frames bring it to 1.
C9_BlackoutTargetAtEnd ==
    [][(~isMobile /\ scrollProgress' # scrollProgress /\ scrollProgress' >= 820000) =>
           /\ blackoutTargetRef' = ProgUnit
           /\ blackoutProgress' < ProgUnit]_vars

C9_Witness ==
    /\ ~isMobile
    /\ scrollProgress = 820000
    /\ blackoutTargetRef = ProgUnit
    /\ blackoutProgress > 0
    /\ blackoutProgress < ProgUnit

-----------------------------------------------------------------------------
(* Random-subset edges: the memo is computed once for given props.          *)

InitPairs ==
    /\ IdleGen
    /\ radius = Unit
    /\ IdleLines
    /\ InitRefs
    /\ InitMainApp
    /\ scrollProgress = 0
    /\ isMobile = FALSE
    /\ startNodes \in {NodeRow(n) : n \in 0..MaxPairNodes}
    /\ endNodes \in {NodeRow(n) : n \in 0..MaxPairNodes}
    /\ numLines \in 0..MaxLines
    /\ \E h \in LayerHeights : startY = h.startY /\ endY = h.endY
    /\ pairsPc = "pending"
    /\ startIndices = <<>>
    /\ endIndices = <<>>
    /\ nodePairs = <<>>

NextPairs == nodePairs_Memo

SpecPairs == InitPairs /\ [][NextPairs]_vars

-----------------------------------------------------------------------------
(* Claims about the random-subset edges *)

\* C11: random-subset edge building emits exactly min(target, |A|, |B|)
\* edges, each between a node of A and a node of B; it emits no edge when
\* either sequence is empty.
C11_PairCount ==
    pairsPc = "done" =>
        /\ Len(nodePairs) =
               (IF numLines <= Len(startNodes) /\ numLines <= Len(endNodes) THEN numLines
                ELSE IF Len(startNodes) <= Len(endNodes) THEN Len(startNodes)
                ELSE Len(endNodes))
        /\ (Len(startNodes) = 0 \/ Len(endNodes) = 0) => nodePairs = <<>>
        /\ \A k \in 1..Len(nodePairs) :
               /\ nodePairs[k].from \in 0..(Len(startNodes) - 1)
               /\ nodePairs[k].to \in 0..(Len(endNodes) - 1)

C11_Witness ==
    /\ pairsPc = "done"
    /\ numLines = 2
    /\ Len(startNodes) = 4
    /\ Len(endNodes) = 3
    /\ Len(nodePairs) = 2
    /\ startIndices # Indices(4)

\* The snap value the spec gives for a request position.
SnapFor(p) ==
    IF p < 200000 THEN [target |-> 0, phase |-> "intro", blackout |-> 0]
    ELSE IF p < 450000 THEN [target |-> 180000, phase |-> "foundation", blackout |-> 0]
    ELSE IF p < 700000 THEN [target |-> 380000, phase |-> "network", blackout |-> 0]
    ELSE IF p < 950000 THEN [target |-> 610000, phase |-> "ecosystem", blackout |-> 0]
    ELSE [target |-> 820000, phase |-> "ecosystem", blackout |-> 1000000]

\* C12: on mobile every snap request sets the target progress to the snap
\* value of its position (0, 0.18, 0.38, 0.61 or 0.82, by the thresholds
\* 0.2, 0.45, 0.7, 0.95), with the matching animation phase and a blackout
\* target of 1 only for 0.82; so a request k/4 targets the k-th snap value.
C12_SnapRequest ==
    (isMobile /\ request # <<>>) =>
        /\ targetProgress = SnapFor(request[1]).target
        /\ animationPhase = SnapFor(request[1]).phase
        /\ blackoutTargetRef = SnapFor(request[1]).blackout
        /\ targetProgress \in {0, 180000, 380000, 610000, 820000}
        /\ \A k \in 0..4 :
               request[1] = k * 250000 =>
                   targetProgress = <<0, 180000, 380000, 610000, 820000>>[k + 1]

C12_Witness ==
    /\ isMobile
    /\ request = <<1000000>>
    /\ targetProgress = 820000
    /\ blackoutTargetRef = 1000000
    /\ isOnFinalPage
    /\ activeCardIndex = 3

\* C13: the final overlay fades in only once blackout has reached 0.95.
\* After every step its fade target is 1 exactly when the final page is
\* active and the blackout progress is at least 0.95, and 0 otherwise; and
\* a frame raises the overlay opacity from 0 only from a state in which the
\* final page is active and the blackout progress is at least 0.95.
C13_OverlayAfterBlackout ==
    [][/\ finalOverlayTargetRef' \in {0, 1000000}
       /\ (finalOverlayTargetRef' = 1000000) =
              (isOnFinalPage' /\ blackoutProgress' >= 950000)
       /\ blackoutProgress' < 950000 => finalOverlayTargetRef' = 0
       /\ (finalOverlayProgress = 0 /\ finalOverlayProgress' > 0) =>
              (isOnFinalPage /\ blackoutProgress >= 950000)]_vars

C13_Witness ==
    /\ isOnFinalPage
    /\ blackoutProgress >= 950000
    /\ blackoutProgress < 1000000
    /\ finalOverlayTargetRef = 1000000
    /\ finalOverlayProgress > 0
    /\ finalOverlayProgress < 100000

\* The values of snapPoints, as a set.
SnapValues == {snapPoints[k] : k \in 1..Len(snapPoints)}

\* C14: while a drag gesture is active the smoothing step leaves the
\* displayed scroll progress unchanged: the only steps that change it are
\* drag updates, which set it to the progress computed for the current touch
\* and leave the target progress alone.  After release (mobile, no drag) the
\* only steps that change the displayed progress are smoothing steps, which
\* move it strictly closer to the target, and the target is a snap value.
C14_DragBypassesSmoothing ==
    [][/\ (isDragging /\ scrollProgress' # scrollProgress) =>
              /\ isDragging'
              /\ touchCurrent' # <<>>
              /\ scrollProgress' = DragProgress(touchCurrent'[1])
              /\ targetProgress' = targetProgress
       /\ (isDragging /\ isDragging' /\ touchCurrent' # touchCurrent) =>
              targetProgress' = targetProgress
       /\ isMobile => targetProgress' \in SnapValues
       /\ (isMobile /\ ~isDragging /\ scrollProgress' # scrollProgress) =>
              /\ targetProgress \in SnapValues
              /\ scrollProgress' = Step(scrollProgress, targetProgress, 5)
              /\ Abs(targetProgress - scrollProgress') <
                     Abs(targetProgress - scrollProgress)]_vars

\* A drag update has moved the displayed progress away from the target.
C14_Witness ==
    /\ isDragging
    /\ touchCurrent # <<>>
    /\ touchCurrent # touchStart
    /\ scrollProgress = DragProgress(touchCurrent[1])
    /\ scrollProgress # targetProgress
    /\ targetProgress \in SnapValues

\* C15: with no drag active, a frame (which leaves the target progress as it
\* is) moves the displayed progress by (target - value) * rate, rate 0.15 on
\* desktop and 0.05 on mobile, or sets it to the target when the gap is
\* below 0.001.  The new value lies strictly closer to the target and never
\* beyond it, so the gap shrinks in every frame until the value equals the
\* target, and a value equal to the target stays there.
C15_SmoothingConverges ==
    [][(AnimationFrame /\ ~isDragging) =>
          LET gap == targetProgress - scrollProgress
              rate == IF isMobile THEN 5 ELSE 15
          IN  /\ targetProgress' = targetProgress
              /\ scrollProgress' =
                     IF Abs(gap) < 1000 THEN targetProgress
                     ELSE scrollProgress + (gap * rate) \div 100
              /\ gap > 0 => (scrollProgress < scrollProgress'
                             /\ scrollProgress' <= targetProgress)
              /\ gap < 0 => (targetProgress <= scrollProgress'
                             /\ scrollProgress' < scrollProgress)
              /\ gap = 0 => scrollProgress' = scrollProgress]_vars

\* The displayed progress has arrived at a target it had to travel to.
C15_Witness ==
    /\ ~isDragging
    /\ events > 0
    /\ targetProgress > 0
    /\ scrollProgress = targetProgress

\* The emitted internal edges contain the edge between i and j, in one
\* orientation.
HasInternalEdge(i, j) ==
    \E k \in 1..Len(internalLines) :
        internalLines[k] = <<i, j>> \/ internalLines[k] = <<j, i>>

\* C16: internal edge building connects every node to its 2 nearest
\* neighbours: in a layer of at least 3 nodes, for
\* every node i and each of the 2 nodes j nearest to i, the emitted edges
\* contain the edge between i and j in one orientation.
C16_TwoNearestConnected ==
    (linesPc = "done" /\ connectInternal /\ Len(particles) >= 3) =>
        \A i \in 0..(Len(particles) - 1) :
            \A k \in 1..2 :
                HasInternalEdge(i, SortByDist(Neighbors(i))[k].idx)

\* The distance from source node i to target node t (indices from 0).
ExternalDist(i, t) == distanceTo(particles[i + 1], connectTo[t + 1])

\* Target t is one of the n nodes of the target layer nearest to source node
\* i: fewer than n targets come before it by distance (and, at the same
\* distance, by index).
AmongNearest(i, t, n) ==
    Cardinality({u \in 0..(Len(connectTo) - 1) :
                    \/ ExternalDist(i, u) < ExternalDist(i, t)
                    \/ (ExternalDist(i, u) = ExternalDist(i, t) /\ u < t)}) < n

HasExternalEdge(i, t) ==
    \E k \in 1..Len(externalLines) : externalLines[k] = <<i, t>>

\* C17: every emitted inter-layer edge (a, b) has distance(a, b) strictly
\* below 3 radius and b is one of the min(3, ceil(|B|/|A|)) nodes of B
\* nearest to a; one of those nearest nodes is left out exactly when its
\* distance is 3 radius or more.
C17_ExternalCutoff ==
    (linesPc = "done" /\ Len(connectTo) > 0) =>
        LET n == Min(3, (Len(connectTo) + Len(particles) - 1) \div Len(particles))
        IN  /\ \A k \in 1..Len(externalLines) :
                  /\ externalLines[k][1] \in 0..(Len(particles) - 1)
                  /\ externalLines[k][2] \in 0..(Len(connectTo) - 1)
                  /\ ExternalDist(externalLines[k][1], externalLines[k][2]) < 3 * radius
                  /\ AmongNearest(externalLines[k][1], externalLines[k][2], n)
            /\ \A i \in 0..(Len(particles) - 1) :
                  \A t \in 0..(Len(connectTo) - 1) :
                      AmongNearest(i, t, n) =>
                          (HasExternalEdge(i, t) <=> ExternalDist(i, t) < 3 * radius)

\* A source node with an emitted edge and with a nearest candidate left out
\* at a distance of exactly 3 radius.
C17_Witness ==
    /\ linesPc = "done"
    /\ Len(connectTo) > 0
    /\ \E i \in 0..(Len(particles) - 1) :
          \E t, u \in 0..(Len(connectTo) - 1) :
              LET n == Min(3, (Len(connectTo) + Len(particles) - 1) \div Len(particles))
              IN  /\ HasExternalEdge(i, t)
                  /\ AmongNearest(i, u, n)
                  /\ ExternalDist(i, u) = 3 * radius
                  /\ ~HasExternalEdge(i, u)

-----------------------------------------------------------------------------
(* Claims about the growth and opacity curves *)

\* Pause, then linear ramp: the growth fraction at progress p of a phase
\* that starts at s and ends at e.
Ramp(p, s, e) ==
    IF p < s + Hundredths(3) THEN 0
    ELSE IF p < e THEN Ratio(p - s - Hundredths(3), e - s - Hundredths(3))
    ELSE Frac

InRamp(p, s, e) == s + Hundredths(3) <= p /\ p < e

\* C18: each of the three edge groups grows by pause then linear ramp over
\* its phase (0.18, 0.35), (0.38, 0.58), (0.61, 0.78): growth is 0 before
\* s + 0.03, (progress - s - 0.03) / (e - s - 0.03) up to e and 1 from e on;
\* during the ramp the group opacity is min(1, 2 growth); and growth is
\* non-decreasing in progress.
C18_PauseThenLinearRamp ==
    frames >= 1 =>
        LET p == scrollProgress
        IN  /\ foundationToNetworkGrowth = Ramp(p, Hundredths(18), Hundredths(35))
            /\ networkToEcosystemGrowth = Ramp(p, Hundredths(38), Hundredths(58))
            /\ ecosystemUpwardGrowth = Ramp(p, Hundredths(61), Hundredths(78))
            /\ InRamp(p, Hundredths(18), Hundredths(35)) =>
                   foundationToNetworkOpacity = Min(Frac, 2 * foundationToNetworkGrowth)
            /\ InRamp(p, Hundredths(38), Hundredths(58)) =>
                   networkToEcosystemOpacity = Min(Frac, 2 * networkToEcosystemGrowth)
            /\ InRamp(p, Hundredths(61), Hundredths(78)) =>
                   ecosystemUpwardOpacity = Min(Frac, 2 * ecosystemUpwardGrowth)
            /\ \A q \in FineSamples :
                   q <= p =>
                       /\ foundationToNetwork(q).growth <= foundationToNetworkGrowth
                       /\ networkToEcosystem(q).growth <= networkToEcosystemGrowth
                       /\ ecosystemUpward(q).growth <= ecosystemUpwardGrowth

\* A frame inside the first ramp, before the opacity saturates.
C18_Witness ==
    /\ frames >= 1
    /\ InRamp(scrollProgress, Hundredths(18), Hundredths(35))
    /\ foundationToNetworkGrowth > 0
    /\ foundationToNetworkGrowth < Frac \div 2
    /\ foundationToNetworkOpacity = 2 * foundationToNetworkGrowth

\* The opacity of an edge group whose phase ended at e, at progress p >= e,
\* is on the line from 1 at e to 0.1 at e + 0.03 (to the last digit) and is
\* 0.1 from there on.
FadedAfter(opacity, p, e) ==
    IF p < e + Hundredths(3)
    THEN LET t == Ratio(p - e, Hundredths(3))
         IN  Abs(10 * opacity - (10 * Frac - 9 * t)) < 10
    ELSE opacity = Frac \div 10

\* C19: after its active phase ends an edge group never becomes invisible:
\* for the foundation-to-network group at every progress >= 0.35 and for the
\* network-to-ecosystem group at every progress >= 0.58, growth is 1 and the
\* opacity is at least 0.1, falling linearly from 1 to 0.1 across the
\* 0.03-wide transition and equal to 0.1 afterwards.
C19_FadedNeverInvisible ==
    frames >= 1 =>
        /\ scrollProgress >= Hundredths(35) =>
               /\ foundationToNetworkGrowth = Frac
               /\ foundationToNetworkOpacity >= Frac \div 10
               /\ FadedAfter(foundationToNetworkOpacity, scrollProgress, Hundredths(35))
        /\ scrollProgress = Hundredths(35) => foundationToNetworkOpacity = Frac
        /\ scrollProgress >= Hundredths(58) =>
               /\ networkToEcosystemGrowth = Frac
               /\ networkToEcosystemOpacity >= Frac \div 10
               /\ FadedAfter(networkToEcosystemOpacity, scrollProgress, Hundredths(58))
        /\ scrollProgress = Hundredths(58) => networkToEcosystemOpacity = Frac

\* A frame inside the second group's transition, the first group faded.
C19_Witness ==
    /\ frames >= 1
    /\ scrollProgress > Hundredths(58)
    /\ scrollProgress < Hundredths(61)
    /\ networkToEcosystemGrowth = Frac
    /\ networkToEcosystemOpacity > Frac \div 10
    /\ networkToEcosystemOpacity < Frac
    /\ foundationToNetworkOpacity = Frac \div 10

\* groupRef.current.visible = opacity > 0.01
Visible(opacity) == opacity > Frac \div 100

NoLinesGrowing ==
    /\ foundationToNetworkGrowth = 0
    /\ networkToEcosystemGrowth = 0
    /\ ecosystemUpwardGrowth = 0
    /\ foundationToNetworkOpacity = 0
    /\ networkToEcosystemOpacity = 0
    /\ ecosystemUpwardOpacity = 0

InIntro(p) == 0 <= p /\ p < Hundredths(18)

\* C20 as stated: for every progress in the intro range [0, 0.18) all three
\* layers are visible (opacity above the 0.01 visibility threshold) and no
\* inter-layer lines are growing (all three growth fractions and edge-group
\* opacities are 0).
C20_IntroAllVisible ==
    (frames >= 1 /\ InIntro(scrollProgress)) =>
        /\ Visible(layer1Opacity)
        /\ Visible(layer2Opacity)
        /\ Visible(layer3Opacity)
        /\ NoLinesGrowing

\* C20, amended: for every progress in [0, 0.18) no inter-layer lines are
\* growing and the foundation layer has opacity 1; the network and apps
\* layers have opacity 1 below 0.14 and 1 - (progress - 0.14) / 0.04 from
\* there on, which is positive but above the 0.01 visibility threshold only
\* for progress below 0.1796.
C20_IntroLayersFade ==
    (frames >= 1 /\ InIntro(scrollProgress)) =>
        LET fading == IF scrollProgress < Hundredths(14) THEN Frac
                      ELSE Frac - Ratio(scrollProgress - Hundredths(14), Hundredths(4))
        IN  /\ NoLinesGrowing
            /\ layer1Opacity = Frac
            /\ layer2Opacity = fading
            /\ layer3Opacity = fading
            /\ fading > 0
            /\ Visible(layer1Opacity)
            /\ Visible(fading) <=> scrollProgress < Hundredths(18) - Hundredths(4) \div 100

\* A frame of the intro in which the two upper layers are hidden.
C20_Witness ==
    /\ frames >= 1
    /\ InIntro(scrollProgress)
    /\ layer1Opacity = Frac
    /\ layer2Opacity > 0
    /\ ~Visible(layer2Opacity)
    /\ ~Visible(layer3Opacity)
    /\ NoLinesGrowing

InBlackoutRange(p) == Hundredths(78) <= p /\ p < Hundredths(88)

\* C21: during blackout only the top layer fades out.  For every progress in
\* [0.78, 0.88) the foundation and network layer opacities are 1, and the
\* apps layer opacity goes from 1 to 0: it is 1 up to 0.85, then
\* 1 - (progress - 0.85) / 0.03, never rising with progress, and 0 at 0.88.
C21_OnlyTopLayerFades ==
    frames >= 1 =>
        /\ InBlackoutRange(scrollProgress) =>
               /\ layer1Opacity = Frac
               /\ layer2Opacity = Frac
               /\ layer3Opacity >= 0 /\ layer3Opacity <= Frac
               /\ layer3Opacity =
                      IF scrollProgress < Hundredths(85) THEN Frac
                      ELSE Frac - Ratio(scrollProgress - Hundredths(85), Hundredths(3))
               /\ \A q \in FineSamples :
                      (InBlackoutRange(q) /\ q <= scrollProgress) =>
                          l3Opacity(q) >= layer3Opacity
        /\ scrollProgress = Hundredths(78) => layer3Opacity = Frac
        /\ scrollProgress = Hundredths(88) => layer3Opacity = 0

\* A frame in which the apps layer is part-way through its fade-out.
C21_Witness ==
    /\ frames >= 1
    /\ InBlackoutRange(scrollProgress)
    /\ layer3Opacity > 0
    /\ layer3Opacity < Frac
    /\ layer2Opacity = Frac
    /\ layer1Opacity = Frac

BlackoutRamp(p) ==
    IF p < Hundredths(80) THEN 0
    ELSE IF p < Hundredths(82) THEN (p - Hundredths(80)) * 50
    ELSE ProgUnit

PieceBoundaries ==
    {Hundredths(n) : n \in {9, 14, 18, 21, 30, 35, 38, 41, 53, 58, 61, 64, 78, 85}}

\* Two lengths agree to 0.01, two fractions to 0.0002: the difference that
\* one step of 1/ProgUnit in progress (and the rounding) can make.
NearLength(a, b) == Abs(a - b) <= Unit \div 100
NearFraction(a, b) == Abs(a - b) <= 2

NearPoint(a, b) ==
    NearLength(a.x, b.x) /\ NearLength(a.y, b.y) /\ NearLength(a.z, b.z)

NearGroup(a, b) ==
    NearFraction(a.growth, b.growth) /\ NearFraction(a.opacity, b.opacity)

\* C23: the outputs of the frame update are continuous in progress.  At
\* every piece boundary b the values written by a frame at b (the piece that
\* starts there) agree with the values the piece that ends there gives just
\* below b: camera target, look-at, layer opacities, growth fractions and
\* edge opacities.  The network layer's fade-in is complete at 0.38 and the
\* apps layer's at 0.61, where the camera target is on the phase pose.
C23_ContinuousAtBoundaries ==
    (frames >= 1 /\ scrollProgress \in PieceBoundaries) =>
        LET below == scrollProgress - 1
        IN  /\ NearPoint(TargetPos(below, isMobile), targetPos)
            /\ NearPoint(TargetLookAt(below, isMobile), targetLookAt)
            /\ NearFraction(l2Opacity(below), layer2Opacity)
            /\ NearFraction(l3Opacity(below), layer3Opacity)
            /\ layer1Opacity = Frac
            /\ NearGroup(foundationToNetwork(below),
                         [growth |-> foundationToNetworkGrowth,
                          opacity |-> foundationToNetworkOpacity])
            /\ NearGroup(networkToEcosystem(below),
                         [growth |-> networkToEcosystemGrowth,
                          opacity |-> networkToEcosystemOpacity])
            /\ NearGroup(ecosystemUpward(below),
                         [growth |-> ecosystemUpwardGrowth,
                          opacity |-> ecosystemUpwardOpacity])
            /\ scrollProgress = Hundredths(38) =>
                   (layer2Opacity = Frac /\ targetPos.y = networkCam(isMobile).y)
            /\ scrollProgress = Hundredths(61) =>
                   (layer3Opacity = Frac /\ targetPos.y = ecosystemCam(isMobile).y)

\* A frame at 0.38: the fade-in piece below it is just short of 1, the frame
\* writes 1 and the network pose.
C23_Witness ==
    /\ frames >= 1
    /\ scrollProgress = Hundredths(38)
    /\ l2Opacity(scrollProgress - 1) < Frac
    /\ layer2Opacity = Frac
    /\ targetPos.y = networkCam(isMobile).y
    /\ CameraHeight(scrollProgress - 1, isMobile).y < targetPos.y

\* The range of a drag from the current section, as [lo, hi]: the
\* neighbouring snap points of section activeCardIndex, [0.61, 0.82] on the
\* final page and [0.38, 0.82] on the ecosystem section.
SectionRange ==
    IF isOnFinalPage THEN [lo |-> Hundredths(61), hi |-> Hundredths(82)]
    ELSE IF activeCardIndex = 3 THEN [lo |-> Hundredths(38), hi |-> Hundredths(82)]
    ELSE [lo |-> snapPoints[Max(activeCardIndex, 1)],
          hi |-> snapPoints[activeCardIndex + 2]]

\* C24: during a mobile drag the progress passed to the drag handler is
\* base + 0.4 (dragDistance / viewportHeight) clamped to the neighbouring
\* snap points of the current section, so a drag update never moves the
\* scene past an adjacent section: the displayed progress lies in the range
\* of the section before the update as well as after it.
C24_DragWithinAdjacentSections ==
    [][(isMobile /\ isDragging /\ isDragging' /\ scrollProgress' # scrollProgress) =>
          /\ SectionRange.lo <= scrollProgress' /\ scrollProgress' <= SectionRange.hi
          /\ SectionRange.lo <= scrollProgress /\ scrollProgress <= SectionRange.hi]_vars

\* C25: node generation never returns more than count nodes, for every
\* count >= 1: the length of every result is between 0 and count, so every
\* returned node has a slot among the count instances of the layer.
C25_AtMostCountNodes ==
    \A k \in 1..Len(results) :
        results[k].impl = "LayerNodes" => Len(results[k].nodes) <= count

\* C26: the final-page flag is consistent with the scroll target: whenever
\* isOnFinalPage is true the target progress is in the blackout zone (at
\* least 0.80 on desktop, exactly 0.82 on mobile), so with a target below
\* the blackout zone isOnFinalPage is false.
C26_FinalPageFlagConsistent ==
    isOnFinalPage =>
        IF isMobile THEN targetProgress = Hundredths(82)
        ELSE targetProgress >= BLACKOUT_START

\* C27: after any sequence of wheel events, drag updates, snap requests and
\* animation frames starting from progress 0, the target progress and the
\* displayed scroll progress stay within [0, 0.82]; the progress ranges
\* above 0.82 are never reached.
C27_ProgressWithinRange ==
    /\ 0 <= targetProgress /\ targetProgress <= Hundredths(82)
    /\ 0 <= scrollProgress /\ scrollProgress <= Hundredths(82)

\* The scene is at the upper end and a further input has left it there.
C27_Witness ==
    /\ events >= 2
    /\ targetProgress = Hundredths(82)
    /\ scrollProgress = Hundredths(82)

\* touchStart - touchCurrent of the gesture in progress (0 without a touch).
SwipeDistance ==
    IF touchStart = <<>> \/ touchCurrent = <<>> THEN 0
    ELSE touchStart[1] - touchCurrent[1]

\* C28: mobile section navigation is a bounded one-step state machine.
\* activeCardIndex is always in 0..3; the end of a touch gesture changes it
\* by at most 1, up only when the swipe exceeds 50 px and the index is below
\* 3, down only when it exceeds 50 px downwards and the index is above 0;
\* the final page is entered only by a swipe up at index 3 and left only to
\* the ecosystem section (index 3, target 0.61).
C28_OneStepNavigation ==
    [][/\ activeCardIndex' \in 0..3
       /\ (isMobile /\ isDragging /\ ~isDragging') =>
              /\ Abs(activeCardIndex' - activeCardIndex) <= 1
              /\ activeCardIndex' > activeCardIndex =>
                     (SwipeDistance > 50 /\ activeCardIndex < 3)
              /\ activeCardIndex' < activeCardIndex =>
                     (SwipeDistance < -50 /\ activeCardIndex > 0)
       /\ (isMobile /\ ~isOnFinalPage /\ isOnFinalPage') =>
              (isDragging /\ SwipeDistance > 50 /\ activeCardIndex = 3)
       /\ (isMobile /\ isOnFinalPage /\ ~isOnFinalPage') =>
              (activeCardIndex' = 3 /\ targetProgress' = Hundredths(61))]_vars

\* seq is a permutation of 0 .. n - 1.
IsPermutation(seq, n) ==
    /\ Len(seq) = n
    /\ \A v \in 0..(n - 1) : \E k \in 1..n : seq[k] = v

\* C29: the random-subset edges form a matching.  Each seeded Fisher-Yates
\* shuffle yields a permutation of the layer's node indices (a swap index
\* drawn for position i lies in 0..i), so no start node and no end node is
\* an endpoint of more than one emitted edge.
C29_PairsFormMatching ==
    pairsPc = "done" =>
        /\ IsPermutation(startIndices, Len(startNodes))
        /\ IsPermutation(endIndices, Len(endNodes))
        /\ \A i \in 1..MaxPairNodes :
               \A r \in {0, seededRandom(startY \div Unit), RngModulus - 1} :
                   RandIndex(r, i + 1) \in 0..i
        /\ \A a, b \in 1..Len(nodePairs) :
               a # b => /\ nodePairs[a].from # nodePairs[b].from
                        /\ nodePairs[a].to # nodePairs[b].to

\* Several edges were emitted from layers whose indices the shuffles moved.
C29_Witness ==
    /\ pairsPc = "done"
    /\ Len(nodePairs) >= 3
    /\ startIndices # Indices(Len(startNodes))
    /\ endIndices # Indices(Len(endNodes))

-----------------------------------------------------------------------------
(* The scroll model under fair scheduling: requestAnimationFrame keeps      *)
(* running the three loops, so a frame that changes something is taken.     *)

SpecLive == Init /\ [][Next]_vars /\ WF_vars(AnimationFrame)

FullyBlackedOut ==
    /\ scrollProgress = Hundredths(82)
    /\ blackoutProgress = ProgUnit
    /\ finalOverlayProgress = ProgUnit

=============================================================================
